---- MODULE Spec2Model ----
(***************************************************************************)
(* Model of the tabular data quality engine of the repository:             *)
(*   DataCleaner  (src/perso/bidouilles/cleaner.py)                        *)
(*   DataAuditor  (src/perso/bidouilles/DataAuditor.py)                    *)
(* A DataFrame is a record [cols, dtype, rows]; cells are records of one   *)
(* shape so that any two cells can be compared.  Numbers are exact         *)
(* rationals n/d (d > 0, lowest terms); text is a sequence of one-character *)
(* strings.  DataFrame objects live in `store`, so that `self.df[col] = x` *)
(* (a write into the object) differs from `self.df = x` (a rebinding).     *)
(***************************************************************************)
EXTENDS Integers, Sequences, FiniteSets, TLC

VARIABLES store, cl, last, aud

vars == <<store, cl, last, aud>>

(* ------------------------------ bounds --------------------------------- *)
\* longest DataFrame the caller passes in
MaxRows == 2
\* most mutating calls made in one run
MaxCalls == 2
\* most distinct values of a column of a DataFrame of many rows
MaxDistinct == 6

(* ------------------------------ numbers -------------------------------- *)
Abs(x) == IF x < 0 THEN -x ELSE x

RECURSIVE GCD(_, _)
GCD(a, b) == IF b = 0 THEN a ELSE GCD(b, a % b)

\* the rational n/d in lowest terms with a positive denominator
Rat(n, d) ==
    LET g == GCD(Abs(n), Abs(d))
        sgn == IF d < 0 THEN -1 ELSE 1
    IN  [n |-> (sgn * n) \div g, d |-> (sgn * d) \div g]

RAdd(a, b) == Rat(a.n * b.d + b.n * a.d, a.d * b.d)
RSub(a, b) == Rat(a.n * b.d - b.n * a.d, a.d * b.d)
RMul(a, b) == Rat(a.n * b.n, a.d * b.d)
RDiv(a, b) == Rat(a.n * b.d, a.d * b.n)
RLt(a, b)  == a.n * b.d < b.n * a.d
RLe(a, b)  == a.n * b.d <= b.n * a.d
RInt(k)    == [n |-> k, d |-> 1]

(* ------------------------------- cells --------------------------------- *)
\* NaN / None
NaN == [k |-> "nan", n |-> 0, d |-> 1, s |-> <<>>]
\* a Python / numpy integer
IntCell(i) == [k |-> "int", n |-> i, d |-> 1, s |-> <<>>]
\* a float, held exactly
FloatCell(r) == [k |-> "float", n |-> r.n, d |-> r.d, s |-> <<>>]
\* a str, as its characters
StrCell(chars) == [k |-> "str", n |-> 0, d |-> 1, s |-> chars]

IsNa(c)  == c.k = "nan"
IsNum(c) == c.k \in {"int", "float"}
IsStr(c) == c.k = "str"
RatOf(c) == [n |-> c.n, d |-> c.d]

\* Python equality of two cell values as pandas' hashing sees it: 1 == 1.0,
\* and missing values are equal to each other
CellEq(a, b) ==
    IF IsNum(a) /\ IsNum(b) THEN RatOf(a) = RatOf(b) ELSE a = b

(* ----------------------------- sequences ------------------------------- *)
Range(s) == {s[i] : i \in DOMAIN s}

RECURSIVE SelectIdx(_, _, _)
\* the positions i of lo..hi with keep[i], ascending, by halves
SelectIdx(keep, lo, hi) ==
    IF lo > hi THEN <<>>
    ELSE IF lo = hi THEN (IF keep[lo] THEN <<lo>> ELSE <<>>)
    ELSE LET mid == (lo + hi) \div 2
         IN  SelectIdx(keep, lo, mid) \o SelectIdx(keep, mid + 1, hi)

\* the subsequence of s at the positions where keep holds
Filter(s, keep) ==
    LET idx == SelectIdx(keep, 1, Len(s))
    IN  [j \in 1..Len(idx) |-> s[idx[j]]]

IsPrefix(s, t) == Len(s) <= Len(t) /\ SubSeq(t, 1, Len(s)) = s

RECURSIVE SumSeq(_)
\* the sum of a sequence of rationals, by halves
SumSeq(s) ==
    IF s = <<>> THEN RInt(0)
    ELSE IF Len(s) = 1 THEN s[1]
    ELSE LET h == Len(s) \div 2
             l == SumSeq(SubSeq(s, 1, h))
             r == SumSeq(SubSeq(s, h + 1, Len(s)))
         IN  IF l.n = 0 THEN r ELSE IF r.n = 0 THEN l ELSE RAdd(l, r)

\* the values of s in ascending order: s[i] goes to the place given by the
\* number of values that come before it
SortRat(s) ==
    LET place(i) ==
            1 + Cardinality({j \in DOMAIN s :
                                RLt(s[j], s[i]) \/ (s[j] = s[i] /\ j < i)})
    IN  [k \in 1..Len(s) |-> s[CHOOSE i \in DOMAIN s : place(i) = k]]

(* -------------------------------- text --------------------------------- *)
\* str.isspace() on the characters the model uses
IsSpace(ch) == ch \in {" ", "\t"}

\* str.lower() on one character
LowerChar(ch) ==
    CASE ch = "A" -> "a"
      [] ch = "B" -> "b"
      [] ch = "É" -> "é"
      [] OTHER -> ch

\* Series.str.lower()
Lower(chars) == [i \in 1..Len(chars) |-> LowerChar(chars[i])]

RECURSIVE LStrip(_)
LStrip(chars) ==
    IF chars # <<>> /\ IsSpace(chars[1]) THEN LStrip(Tail(chars)) ELSE chars

RECURSIVE RStrip(_)
RStrip(chars) ==
    IF chars # <<>> /\ IsSpace(chars[Len(chars)])
    THEN RStrip(SubSeq(chars, 1, Len(chars) - 1))
    ELSE chars

\* Series.str.strip()
Strip(chars) == RStrip(LStrip(chars))

RECURSIVE CollapseSpaces(_)
\* re.sub(r'\s+', ' ', s): every maximal whitespace run becomes one space
CollapseSpaces(chars) ==
    IF chars = <<>> THEN <<>>
    ELSE IF IsSpace(chars[1])
         THEN <<" ">> \o CollapseSpaces(LStrip(chars))
         ELSE <<chars[1]>> \o CollapseSpaces(Tail(chars))

\* unicodedata.normalize('NFD', ch) without its combining marks (category Mn)
StripAccentChar(ch) ==
    CASE ch = "é" -> "e"
      [] ch = "É" -> "E"
      [] ch = "ç" -> "c"
      [] OTHER -> ch

StartsWith(chars, old) ==
    Len(old) <= Len(chars) /\ SubSeq(chars, 1, Len(old)) = old

RECURSIVE ReplaceLiteral_regex(_, _, _)
\* mutant of ReplaceLiteral: old is read as a regular expression, "." stands
\* for any character
ReplaceLiteral_regex(chars, old, new) ==
    IF chars = <<>> THEN <<>>
    ELSE IF Len(old) <= Len(chars) /\ \A k \in DOMAIN old : old[k] \in {".", chars[k]}
         THEN new \o ReplaceLiteral_regex(SubSeq(chars, Len(old) + 1, Len(chars)), old, new)
         ELSE <<chars[1]>> \o ReplaceLiteral_regex(Tail(chars), old, new)

RECURSIVE ReplaceLiteral(_, _, _)
\* str.replace(old, new) for a non-empty old: leftmost, non-overlapping
ReplaceLiteral(chars, old, new) ==
    IF chars = <<>> THEN <<>>
    ELSE IF StartsWith(chars, old)
         THEN new \o ReplaceLiteral(SubSeq(chars, Len(old) + 1, Len(chars)), old, new)
         ELSE <<chars[1]>> \o ReplaceLiteral(Tail(chars), old, new)

DigitChars == <<"0", "1", "2", "3", "4", "5", "6", "7", "8", "9">>

RECURSIVE Digits(_)
\* the decimal digits of a natural number
Digits(n) ==
    IF n < 10 THEN <<DigitChars[n + 1]>>
    ELSE Digits(n \div 10) \o <<DigitChars[(n % 10) + 1]>>

RECURSIVE FracDigits(_, _)
\* the decimal digits of num/den (0 <= num < den, den with no prime factor
\* but 2 and 5)
FracDigits(num, den) ==
    IF num = 0 THEN <<>>
    ELSE <<DigitChars[((num * 10) \div den) + 1]>> \o FracDigits((num * 10) % den, den)

RECURSIVE OnlyTwoFive(_)
OnlyTwoFive(d) ==
    IF d = 1 THEN TRUE
    ELSE IF d % 2 = 0 THEN OnlyTwoFive(d \div 2)
    ELSE IF d % 5 = 0 THEN OnlyTwoFive(d \div 5)
    ELSE FALSE

\* str(x) of a cell value: an int prints its digits, a float its shortest
\* decimal form ("1.0", "4.5"); a float with no finite decimal form prints the
\* digits float.__repr__ picks, which the model keeps as one opaque character
PyStr(c) ==
    LET sign == IF c.n < 0 THEN <<"-">> ELSE <<>>
        a == Abs(c.n)
    IN  CASE c.k = "str" -> c.s
          [] c.k = "nan" -> <<"n", "a", "n">>
          [] c.k = "int" -> sign \o Digits(a)
          [] OTHER ->
               IF OnlyTwoFive(c.d)
               THEN sign \o Digits(a \div c.d) \o <<".">> \o
                    (IF a % c.d = 0 THEN <<"0">> ELSE FracDigits(a % c.d, c.d))
               ELSE <<ToString(c.n) \o "/" \o ToString(c.d)>>

DigitValue(ch) == CHOOSE v \in 0..9 : DigitChars[v + 1] = ch
IsDigit(ch) == ch \in Range(DigitChars)
AllDigits(chars) == chars # <<>> /\ \A i \in DOMAIN chars : IsDigit(chars[i])

RECURSIVE NatOf(_)
NatOf(chars) ==
    IF chars = <<>> THEN 0
    ELSE NatOf(SubSeq(chars, 1, Len(chars) - 1)) * 10 + DigitValue(chars[Len(chars)])

RECURSIVE Pow10(_)
Pow10(k) == IF k = 0 THEN 1 ELSE 10 * Pow10(k - 1)

\* pd.to_numeric(..., errors='coerce') on one str: surrounding whitespace is
\* skipped, "12" is an int, "1.5" a float, anything else is coerced to NaN
ParseNum(chars) ==
    LET t == Strip(chars)
        dots == {i \in DOMAIN t : t[i] = "."}
    IN  IF AllDigits(t) THEN IntCell(NatOf(t))
        ELSE IF Cardinality(dots) = 1
             THEN LET p == CHOOSE i \in dots : TRUE
                      ip == SubSeq(t, 1, p - 1)
                      fp == SubSeq(t, p + 1, Len(t))
                  IN  IF AllDigits(ip) /\ AllDigits(fp)
                      THEN FloatCell(Rat(NatOf(ip) * Pow10(Len(fp)) + NatOf(fp),
                                         Pow10(Len(fp))))
                      ELSE NaN
             ELSE NaN

(* ----------------------------- DataFrame ------------------------------- *)
\* A DataFrame: ordered column names, a dtype per column, rows of cells.
\* dtypes: "int64", "float64", "object", "category".
NoFrame == [cols |-> <<>>, dtype |-> [c \in {} |-> ""], rows |-> <<>>]

NRows(df) == Len(df.rows)
HasCol(df, col) == col \in Range(df.cols)
Column(df, col) == [i \in 1..NRows(df) |-> df.rows[i][col]]

\* df[col] = values (a write into the DataFrame object), with the dtype of
\* the assigned Series
SetColumn(df, col, values, dt) ==
    [df EXCEPT !.dtype[col] = dt,
               !.rows = [i \in 1..NRows(df) |-> [df.rows[i] EXCEPT ![col] = values[i]]]]

\* mutant of SelectRows: the rows selected come last row first
SelectRows_reversed(df, keep) ==
    LET sel == Filter(df.rows, keep)
    IN  [df EXCEPT !.rows = [i \in 1..Len(sel) |-> sel[Len(sel) + 1 - i]]]

\* df[mask]: the rows at the positions where keep holds, order kept
SelectRows(df, keep) == [df EXCEPT !.rows = Filter(df.rows, keep)]

\* pd.api.types.is_numeric_dtype
is_numeric_dtype(dt) == dt \in {"int64", "float64"}

\* df.select_dtypes(include=kinds).columns, in column order
select_dtypes(df, kinds) ==
    Filter(df.cols, [i \in 1..Len(df.cols) |-> df.dtype[df.cols[i]] \in kinds])

TextKinds == {"object"}
NumberKinds == {"int64", "float64"}

\* two rows hold equal values in every column
RowEq(df, r1, r2) == \A i \in 1..Len(df.cols) : CellEq(r1[df.cols[i]], r2[df.cols[i]])

\* mutant of duplicated: keep is ignored, the first occurrence is kept
duplicated_first(df, keep) ==
    [i \in 1..NRows(df) |-> \E j \in 1..(i - 1) : RowEq(df, df.rows[j], df.rows[i])]

\* df.duplicated(keep): row i repeats an earlier (keep='first') or a later
\* (keep='last') row
duplicated(df, keep) ==
    [i \in 1..NRows(df) |->
        IF keep = "first"
        THEN \E j \in 1..(i - 1) : RowEq(df, df.rows[j], df.rows[i])
        ELSE \E j \in (i + 1)..NRows(df) : RowEq(df, df.rows[j], df.rows[i])]

\* number of TRUE entries of a boolean sequence
CountTrue(b) == Cardinality({i \in DOMAIN b : b[i]})

\* df.isna().sum().sum()
TotalNa(df) ==
    Cardinality({p \in (1..NRows(df)) \X (1..Len(df.cols)) :
                    IsNa(df.rows[p[1]][df.cols[p[2]]])})

\* df[col].isna().sum()
ColNa(df, col) == Cardinality({i \in 1..NRows(df) : IsNa(df.rows[i][col])})

\* the non-missing numbers of a column, in row order
NumValues(values) ==
    LET kept == Filter(values, [i \in 1..Len(values) |-> IsNum(values[i])])
    IN  [i \in 1..Len(kept) |-> RatOf(kept[i])]

\* Series.nunique(): distinct non-missing values
nunique(values) ==
    LET idx == {i \in DOMAIN values : ~IsNa(values[i])}
    IN  Cardinality({i \in idx : \A j \in idx : j < i => ~CellEq(values[j], values[i])})

(* ----------------------------- statistics ------------------------------ *)
\* Series.mean(): NaN skipped; NaN when nothing is left
mean(values) ==
    LET v == NumValues(values)
    IN  IF v = <<>> THEN NaN ELSE FloatCell(RDiv(SumSeq(v), RInt(Len(v))))

\* Series.quantile(q) with q = qn/qd, linear interpolation, NaN skipped
quantile(values, qn, qd) ==
    LET v == SortRat(NumValues(values))
        m == Len(v)
        lo == ((m - 1) * qn) \div qd
        rem == ((m - 1) * qn) % qd
    IN  IF m = 0 THEN NaN
        ELSE IF rem = 0 THEN FloatCell(v[lo + 1])
        ELSE FloatCell(RAdd(v[lo + 1],
                            RMul(RSub(v[lo + 2], v[lo + 1]), Rat(rem, qd))))

\* Series.median()
median(values) == quantile(values, 1, 2)

\* mutant of mode0: the largest one on a tie
mode0_largest(values, dt) ==
    LET v == NumValues(values)
        count(x) == Cardinality({i \in DOMAIN v : v[i] = x})
        best == {x \in Range(v) : \A y \in Range(v) : count(y) <= count(x)}
        most == CHOOSE x \in best : \A y \in best : RLe(y, x)
    IN  IF v = <<>> THEN NaN
        ELSE IF dt = "int64" THEN IntCell(most.n) ELSE FloatCell(most)

\* Series.mode()[0] if the mode is not empty else NaN: the most frequent
\* non-missing value, the smallest one on a tie
mode0(values, dt) ==
    LET v == NumValues(values)
        count(x) == Cardinality({i \in DOMAIN v : v[i] = x})
        best == {x \in Range(v) : \A y \in Range(v) : count(y) <= count(x)}
        least == CHOOSE x \in best : \A y \in best : RLe(x, y)
    IN  IF v = <<>> THEN NaN
        ELSE IF dt = "int64" THEN IntCell(least.n) ELSE FloatCell(least)

\* Series.fillna(value): every missing cell becomes value (fillna(NaN) fills
\* nothing)
fillna(values, value) ==
    [i \in 1..Len(values) |-> IF IsNa(values[i]) THEN value ELSE values[i]]

\* dtype of a column after fillna(value): a str put into a float column that
\* had a hole makes it an object column
FillDtype(dt, values, value) ==
    IF dt = "float64" /\ IsStr(value) /\ \E i \in DOMAIN values : IsNa(values[i])
    THEN "object" ELSE dt

(* ---------------------------- DataCleaner ------------------------------ *)
\* The state a method works on: the DataFrame self.df refers to, self.log,
\* the exception that left the method ("" when none did), and whether the
\* method rebound self.df to a new DataFrame object.
Work(df, log) == [df |-> df, log |-> log, fault |-> "", rebound |-> FALSE]
Raise(st, exc) == [st EXCEPT !.fault = exc]

\* the message of a log entry, by its parts
BlankMsg ==
    [text |-> "", col |-> "", cols |-> <<>>, num |-> 0, val |-> NaN,
     word |-> "", flags |-> <<>>, rules |-> <<>>]

\* strftime("%Y-%m-%d %H:%M:%S") of datetime.now(): the model keeps the
\* text of the time stamp as one token
Timestamp == "YYYY-mm-dd HH:MM:SS"

\* mutant of _log_action: the new entry is put in front
_log_action_front(log, message) == <<[ts |-> Timestamp, msg |-> message]>> \o log

\* DataCleaner._log_action: entry = "[timestamp] message", appended
_log_action(log, message) == Append(log, [ts |-> Timestamp, msg |-> message])

\* mutant of drop_duplicates: logs only when rows were removed, as
\* remove_outliers_iqr does
drop_duplicates_quiet(st, keep) ==
    LET before == NRows(st.df)
        dup == duplicated(st.df, keep)
        df2 == SelectRows(st.df, [i \in 1..before |-> ~dup[i]])
        removed == before - NRows(df2)
    IN  [st EXCEPT !.df = df2, !.rebound = TRUE,
                   !.log = IF removed > 0
                           THEN _log_action(st.log,
                                  [BlankMsg EXCEPT !.text = "Suppression doublons",
                                                   !.num = removed, !.word = keep])
                           ELSE st.log]

\* mutant of drop_duplicates: the entry reports the rows that were there, not
\* the rows that were removed
drop_duplicates_total(st, keep) ==
    LET before == NRows(st.df)
        dup == duplicated(st.df, keep)
        df2 == SelectRows(st.df, [i \in 1..before |-> ~dup[i]])
    IN  [st EXCEPT !.df = df2, !.rebound = TRUE,
                   !.log = _log_action(st.log,
                       [BlankMsg EXCEPT !.text = "Suppression doublons",
                                        !.num = before, !.word = keep])]

\* DataCleaner.drop_duplicates
drop_duplicates(st, keep) ==
    LET before == NRows(st.df)
        dup == duplicated(st.df, keep)
        df2 == SelectRows(st.df, [i \in 1..before |-> ~dup[i]])
        removed == before - NRows(df2)
    IN  [st EXCEPT !.df = df2, !.rebound = TRUE,
                   !.log = _log_action(st.log,
                       [BlankMsg EXCEPT !.text = "Suppression doublons",
                                        !.num = removed, !.word = keep])]

\* the value fillna(value) writes into a column of dtype dt
FillCell(dt, value) ==
    IF dt = "float64" /\ IsNum(value) THEN FloatCell(RatOf(value)) ELSE value

\* Categorical.fillna(value) raises when value is not a category
CategoryRejects(df, col, value) ==
    /\ df.dtype[col] = "category"
    /\ \A i \in 1..NRows(df) : ~CellEq(df.rows[i][col], value) \/ IsNa(df.rows[i][col])

RECURSIVE FillColumns(_, _, _)
\* df[cols] = df[cols].fillna(value)
FillColumns(df, cols, value) ==
    IF cols = <<>> THEN df
    ELSE LET col == Head(cols)
             old == Column(df, col)
             v == FillCell(df.dtype[col], value)
         IN  FillColumns(SetColumn(df, col, fillna(old, v),
                                   FillDtype(df.dtype[col], old, v)),
                         Tail(cols), value)

RECURSIVE ImputeLoop(_, _, _)
\* handle_missing, the loop of the 'mean' / 'median' / 'mode' branch
ImputeLoop(st, cols, strategy) ==
    IF cols = <<>> THEN st
    ELSE LET col == Head(cols) IN
         IF ~HasCol(st.df, col) THEN Raise(st, "KeyError")
         ELSE IF ~is_numeric_dtype(st.df.dtype[col])
              THEN ImputeLoop(st, Tail(cols), strategy)
         ELSE LET old == Column(st.df, col)
                  val == CASE strategy = "mean" -> mean(old)
                           [] strategy = "median" -> median(old)
                           [] OTHER -> mode0(old, st.df.dtype[col])
                  df2 == SetColumn(st.df, col, fillna(old, val), st.df.dtype[col])
              IN  ImputeLoop(
                      [st EXCEPT !.df = df2,
                                 !.log = _log_action(st.log,
                                     [BlankMsg EXCEPT !.text = "imputation", !.col = col,
                                                      !.word = strategy, !.val = val])],
                      Tail(cols), strategy)

\* DataCleaner.handle_missing; fill_value None is written NaN
handle_missing(st, strategy, columns, fill_value) ==
    LET target_cols == IF columns # <<>> THEN columns ELSE st.df.cols
        before_na == TotalNa(st.df)
        absent == \E i \in DOMAIN target_cols : ~HasCol(st.df, target_cols[i])
        value == IF strategy = "zero" THEN IntCell(0) ELSE fill_value
    IN  CASE strategy = "drop" ->
               IF absent THEN Raise(st, "KeyError")
               ELSE [st EXCEPT
                       !.df = SelectRows(st.df,
                           [i \in 1..NRows(st.df) |->
                               \A j \in DOMAIN target_cols :
                                   ~IsNa(st.df.rows[i][target_cols[j]])]),
                       !.rebound = TRUE,
                       !.log = _log_action(st.log,
                           [BlankMsg EXCEPT !.text = "Drop NaN", !.num = before_na])]
          [] strategy \in {"mean", "median", "mode"} ->
               ImputeLoop(st, target_cols, strategy)
          [] strategy = "zero" \/ (strategy = "custom" /\ ~IsNa(fill_value)) ->
               IF absent THEN Raise(st, "KeyError")
               ELSE IF \E j \in DOMAIN target_cols :
                          CategoryRejects(st.df, target_cols[j], value)
                    THEN Raise(st, "TypeError")
               ELSE [st EXCEPT
                       !.df = FillColumns(st.df, target_cols, value),
                       !.log = _log_action(st.log,
                           [BlankMsg EXCEPT !.text = "Imputation", !.val = value,
                                            !.cols = target_cols])]
          [] OTHER -> st

\* Series.str exists only when the values are inferred as text: an object (or
\* category) column whose non-missing values are not all numbers
StrAccessorOk(dt, values) ==
    /\ dt \in {"object", "category"}
    /\ \/ \A i \in DOMAIN values : IsNa(values[i])
       \/ \E i \in DOMAIN values : IsStr(values[i])

\* a Series.str method on one value: text is transformed, anything else
\* becomes NaN
StrMap(c, chars) == IF IsStr(c) THEN StrCell(chars) ELSE NaN

\* clean_strings, lines 107-112 on one value, for the switch settings under
\* which those lines run through
CleanValue(c, lowercase, strip, remove_extra_spaces) ==
    LET s0 == c.s
        s1 == IF lowercase THEN Lower(s0) ELSE s0
        s2 == IF strip THEN Strip(s1) ELSE s1
        s3 == IF remove_extra_spaces THEN CollapseSpaces(s2) ELSE s2
    IN  StrMap(c, s3)

\* clean_strings, lines 106-112 on one column: s is the .str accessor until
\* a method of it is called, and a Series from then on
CleanColumn(st, col, lowercase, strip, remove_extra_spaces) ==
    LET dt == st.df.dtype[col]
        old == Column(st.df, col)
    IN  IF dt # "object" THEN st
        ELSE IF ~StrAccessorOk(dt, old) THEN Raise(st, "AttributeError")
        \* s = s.lower() is a Series; a Series has no attribute strip
        ELSE IF lowercase /\ strip THEN Raise(st, "AttributeError")
        \* s is still the accessor: it cannot be assigned to a column
        ELSE IF ~lowercase /\ ~strip /\ ~remove_extra_spaces THEN Raise(st, "TypeError")
        ELSE [st EXCEPT !.df = SetColumn(st.df, col,
                 [i \in 1..Len(old) |->
                     CleanValue(old[i], lowercase, strip, remove_extra_spaces)],
                 "object")]

RECURSIVE CleanLoop(_, _, _, _, _, _)
\* clean_strings, the loop over the target columns
CleanLoop(st, cols, lowercase, strip, remove_extra_spaces, replace_na) ==
    IF cols = <<>> THEN st
    ELSE LET col == Head(cols) IN
         IF ~HasCol(st.df, col) THEN Raise(st, "KeyError")
         ELSE IF ~IsNa(replace_na) /\ CategoryRejects(st.df, col, replace_na)
              THEN Raise(st, "TypeError")
         ELSE LET old == Column(st.df, col)
                  v == FillCell(st.df.dtype[col], replace_na)
                  st1 == IF IsNa(replace_na) THEN st
                         ELSE [st EXCEPT !.df = SetColumn(st.df, col, fillna(old, v),
                                                  FillDtype(st.df.dtype[col], old, v))]
                  st2 == CleanColumn(st1, col, lowercase, strip, remove_extra_spaces)
              IN  IF st2.fault # "" THEN st2
                  ELSE CleanLoop(
                         [st2 EXCEPT !.log = _log_action(st2.log,
                             [BlankMsg EXCEPT !.text = "Nettoyage texte", !.col = col,
                                  !.flags = <<lowercase, strip, remove_extra_spaces>>])],
                         Tail(cols), lowercase, strip, remove_extra_spaces, replace_na)

\* DataCleaner.clean_strings; replace_na None is written NaN
clean_strings(st, columns, lowercase, strip, remove_extra_spaces, replace_na) ==
    LET target_cols == IF columns # <<>> THEN columns
                       ELSE select_dtypes(st.df, TextKinds)
    IN  CleanLoop(st, target_cols, lowercase, strip, remove_extra_spaces, replace_na)

\* remove_accents.strip_accents
strip_accents(c) ==
    IF IsNa(c) THEN c
    ELSE LET t == PyStr(c)
         IN  StrCell([i \in 1..Len(t) |-> StripAccentChar(t[i])])

\* dtype of Series.apply(f): object as soon as a str comes out; a category
\* column stays one when f maps its categories to distinct values
ApplyDtype(dt, old, new) ==
    IF \A i \in DOMAIN new : IsNa(new[i]) THEN dt
    ELSE IF dt = "category" /\ nunique(old) = nunique(new) THEN "category"
    ELSE "object"

RECURSIVE AccentLoop(_, _)
\* remove_accents, the loop over the target columns
AccentLoop(st, cols) ==
    IF cols = <<>> THEN st
    ELSE LET col == Head(cols) IN
         IF ~HasCol(st.df, col) THEN Raise(st, "KeyError")
         ELSE LET old == Column(st.df, col)
                  new == [i \in 1..Len(old) |-> strip_accents(old[i])]
              IN  AccentLoop(
                      [st EXCEPT
                         !.df = SetColumn(st.df, col, new,
                                          ApplyDtype(st.df.dtype[col], old, new)),
                         !.log = _log_action(st.log,
                             [BlankMsg EXCEPT !.text = "Accents supprimes", !.col = col])],
                      Tail(cols))

\* DataCleaner.remove_accents
remove_accents(st, columns) ==
    AccentLoop(st, IF columns # <<>> THEN columns
                   ELSE select_dtypes(st.df, TextKinds))

RECURSIVE RuleLoop(_, _, _)
\* replace_in_strings, the inner loop: the rules of to_replace in order, each
\* on the column as the rules before it left it
RuleLoop(st, col, rules) ==
    IF rules = <<>> THEN st
    ELSE LET old == Column(st.df, col) IN
         IF ~StrAccessorOk(st.df.dtype[col], old) THEN Raise(st, "AttributeError")
         ELSE RuleLoop(
                [st EXCEPT !.df = SetColumn(st.df, col,
                    [i \in 1..Len(old) |->
                        StrMap(old[i], ReplaceLiteral(old[i].s, rules[1][1], rules[1][2]))],
                    "object")],
                col, Tail(rules))

RECURSIVE ReplaceLoop(_, _, _)
\* replace_in_strings, the loop over the target columns
ReplaceLoop(st, cols, to_replace) ==
    IF cols = <<>> THEN st
    ELSE LET col == Head(cols) IN
         IF ~HasCol(st.df, col) THEN Raise(st, "KeyError")
         ELSE LET st1 == RuleLoop(st, col, to_replace)
              IN  IF st1.fault # "" THEN st1
                  ELSE ReplaceLoop(
                         [st1 EXCEPT !.log = _log_action(st1.log,
                             [BlankMsg EXCEPT !.text = "Remplacements", !.col = col,
                                              !.rules = to_replace])],
                         Tail(cols), to_replace)

\* DataCleaner.replace_in_strings; to_replace None or {} is written << >>
replace_in_strings(st, columns, to_replace) ==
    IF to_replace = <<>> THEN st
    ELSE ReplaceLoop(st, IF columns # <<>> THEN columns
                         ELSE select_dtypes(st.df, TextKinds), to_replace)

\* mutant of the bound arithmetic: the sign of the term is flipped
CellLin_flipped(a, m, b, sign) ==
    IF IsNa(a) \/ IsNa(b) THEN NaN
    ELSE FloatCell(RSub(RatOf(a), RMul(RInt(sign), RMul(m, RatOf(b)))))

\* mutant of Between: a missing value passes the mask
Between_na(c, lower, upper) ==
    \/ IsNa(c)
    \/ /\ IsNum(c) /\ IsNum(lower) /\ IsNum(upper)
       /\ RLe(RatOf(lower), RatOf(c)) /\ RLe(RatOf(c), RatOf(upper))

\* lower <= x <= upper on cells; a comparison with NaN is False
Between(c, lower, upper) ==
    /\ IsNum(c) /\ IsNum(lower) /\ IsNum(upper)
    /\ RLe(RatOf(lower), RatOf(c)) /\ RLe(RatOf(c), RatOf(upper))

\* Q - m * IQR style arithmetic on cells; NaN propagates
CellLin(a, m, b, sign) ==
    IF IsNa(a) \/ IsNa(b) THEN NaN
    ELSE FloatCell(RAdd(RatOf(a), RMul(RInt(sign), RMul(m, RatOf(b)))))

RECURSIVE OutlierLoop_masks(_, _, _)
\* mutant of the loop of remove_outliers_iqr: every column is filtered with
\* the bounds of the DataFrame the call started from (the object is written
\* in place of being replaced, so st.df of the first round stays in reach
\* through the rows kept so far)
OutlierLoop_masks(st, cols, multiplier) ==
    IF cols = <<>> THEN st
    ELSE LET col == cols[Len(cols)]
             st1 == OutlierLoop_masks(st, SubSeq(cols, 1, Len(cols) - 1), multiplier)
         IN
         IF st1.fault # "" THEN st1
         ELSE IF ~HasCol(st.df, col) THEN Raise(st1, "KeyError")
         ELSE IF ~is_numeric_dtype(st.df.dtype[col]) THEN Raise(st1, "TypeError")
         ELSE LET values == Column(st.df, col)
                  Q1 == quantile(values, 1, 4)
                  Q3 == quantile(values, 3, 4)
                  IQR == FloatCell(RSub(RatOf(Q3), RatOf(Q1)))
                  lower == FloatCell(RSub(RatOf(Q1), RMul(multiplier, RatOf(IQR))))
                  upper == FloatCell(RAdd(RatOf(Q3), RMul(multiplier, RatOf(IQR))))
                  before == NRows(st1.df)
                  df2 == SelectRows(st1.df,
                            [i \in 1..before |->
                                /\ ~IsNa(Q1)
                                /\ IsNum(st1.df.rows[i][col])
                                /\ RLe(RatOf(lower), RatOf(st1.df.rows[i][col]))
                                /\ RLe(RatOf(st1.df.rows[i][col]), RatOf(upper))])
                  removed == before - NRows(df2)
              IN  [st1 EXCEPT
                     !.df = df2, !.rebound = TRUE,
                     !.log = IF removed > 0
                             THEN _log_action(st1.log,
                                    [BlankMsg EXCEPT !.text = "outliers supprimes",
                                         !.col = col, !.num = removed,
                                         !.val = FloatCell(multiplier)])
                             ELSE st1.log]

RECURSIVE OutlierLoop(_, _, _)
\* remove_outliers_iqr, the loop over the target columns: each column is
\* filtered on the rows the columns before it left
OutlierLoop(st, cols, multiplier) ==
    IF cols = <<>> THEN st
    ELSE LET col == Head(cols) IN
         IF ~HasCol(st.df, col) THEN Raise(st, "KeyError")
         \* Series.quantile of a column that is not numeric
         ELSE IF ~is_numeric_dtype(st.df.dtype[col]) THEN Raise(st, "TypeError")
         ELSE LET values == Column(st.df, col)
                  Q1 == quantile(values, 1, 4)
                  Q3 == quantile(values, 3, 4)
                  IQR == CellLin(Q3, RInt(1), Q1, -1)
                  lower == CellLin(Q1, multiplier, IQR, -1)
                  upper == CellLin(Q3, multiplier, IQR, 1)
                  before == NRows(st.df)
                  df2 == SelectRows(st.df,
                            [i \in 1..before |-> Between(values[i], lower, upper)])
                  removed == before - NRows(df2)
              IN  OutlierLoop(
                      [st EXCEPT
                         !.df = df2, !.rebound = TRUE,
                         !.log = IF removed > 0
                                 THEN _log_action(st.log,
                                        [BlankMsg EXCEPT !.text = "outliers supprimes",
                                             !.col = col, !.num = removed,
                                             !.val = FloatCell(multiplier)])
                                 ELSE st.log],
                      Tail(cols), multiplier)

RECURSIVE OutlierLoopStrict(_, _, _)
\* the loop of remove_outliers_iqr with the mask (x > lower) & (x < upper)
OutlierLoopStrict(st, cols, multiplier) ==
    IF cols = <<>> THEN st
    ELSE LET col == Head(cols) IN
         IF ~HasCol(st.df, col) THEN Raise(st, "KeyError")
         ELSE IF ~is_numeric_dtype(st.df.dtype[col]) THEN Raise(st, "TypeError")
         ELSE LET values == Column(st.df, col)
                  Q1 == quantile(values, 1, 4)
                  Q3 == quantile(values, 3, 4)
                  IQR == CellLin(Q3, RInt(1), Q1, -1)
                  lower == CellLin(Q1, multiplier, IQR, -1)
                  upper == CellLin(Q3, multiplier, IQR, 1)
                  before == NRows(st.df)
                  df2 == SelectRows(st.df,
                            [i \in 1..before |->
                                /\ Between(values[i], lower, upper)
                                /\ RatOf(values[i]) # RatOf(lower)
                                /\ RatOf(values[i]) # RatOf(upper)])
                  removed == before - NRows(df2)
              IN  OutlierLoopStrict(
                      [st EXCEPT
                         !.df = df2, !.rebound = TRUE,
                         !.log = IF removed > 0
                                 THEN _log_action(st.log,
                                        [BlankMsg EXCEPT !.text = "outliers supprimes",
                                             !.col = col, !.num = removed,
                                             !.val = FloatCell(multiplier)])
                                 ELSE st.log],
                      Tail(cols), multiplier)

\* mutant of remove_outliers_iqr: values on a bound are removed too
remove_outliers_iqr_strict(st, columns, multiplier) ==
    OutlierLoopStrict(st, IF columns # <<>> THEN columns
                          ELSE select_dtypes(st.df, NumberKinds), multiplier)

\* DataCleaner.remove_outliers_iqr; multiplier is a rational
remove_outliers_iqr(st, columns, multiplier) ==
    OutlierLoop(st, IF columns # <<>> THEN columns
                    ELSE select_dtypes(st.df, NumberKinds), multiplier)

\* pd.to_numeric(values, errors='coerce') on one value
to_numeric(c) == IF IsStr(c) THEN ParseNum(c.s) ELSE c

\* int(x) of a float: truncation toward zero
Trunc(c) ==
    IntCell(IF c.n >= 0 THEN c.n \div c.d ELSE -((-c.n) \div c.d))

\* the exception of pd.to_numeric(values, errors='coerce').astype(dtype), ""
\* when there is none
AstypeError(values, dtype) ==
    IF dtype \notin {"int", "float"} THEN "TypeError: data type not understood"
    ELSE IF dtype = "int" /\ \E i \in DOMAIN values : IsNa(to_numeric(values[i]))
         THEN "ValueError: cannot convert NaN to integer"
    ELSE ""

\* the values of pd.to_numeric(values, errors='coerce').astype(dtype)
Astype(values, dtype) ==
    [i \in 1..Len(values) |->
        LET c == to_numeric(values[i])
        IN  IF IsNa(c) THEN NaN
            ELSE IF dtype = "int" THEN Trunc(c)
            ELSE FloatCell(RatOf(c))]

RECURSIVE ConvertLoop(_, _)
\* convert_types, the loop over the (column, dtype) pairs of type_dict
ConvertLoop(st, type_dict) ==
    IF type_dict = <<>> THEN st
    ELSE LET col == type_dict[1][1]
             dtype == type_dict[1][2]
         IN
         IF ~HasCol(st.df, col) THEN ConvertLoop(st, Tail(type_dict))
         ELSE LET old == Column(st.df, col)
                  err == IF dtype = "category" THEN "" ELSE AstypeError(old, dtype)
                  df2 == IF dtype = "category"
                         THEN SetColumn(st.df, col, old, "category")
                         ELSE SetColumn(st.df, col, Astype(old, dtype),
                                        IF dtype = "int" THEN "int64" ELSE "float64")
              IN  ConvertLoop(
                     IF err = ""
                     THEN [st EXCEPT !.df = df2,
                               !.log = _log_action(st.log,
                                   [BlankMsg EXCEPT !.text = "type converti", !.col = col,
                                                    !.word = dtype])]
                     ELSE [st EXCEPT
                               !.log = _log_action(st.log,
                                   [BlankMsg EXCEPT !.text = "Erreur conversion",
                                                    !.col = col, !.word = err])],
                     Tail(type_dict))

RECURSIVE ConvertLoopRaises(_, _)
\* mutant of convert_types: no try/except, the exception of a failed
\* conversion leaves the method
ConvertLoopRaises(st, type_dict) ==
    IF type_dict = <<>> THEN st
    ELSE LET col == type_dict[1][1]
             dtype == type_dict[1][2]
         IN
         IF ~HasCol(st.df, col) THEN ConvertLoopRaises(st, Tail(type_dict))
         ELSE LET old == Column(st.df, col)
                  err == IF dtype = "category" THEN "" ELSE AstypeError(old, dtype)
                  df2 == IF dtype = "category"
                         THEN SetColumn(st.df, col, old, "category")
                         ELSE SetColumn(st.df, col, Astype(old, dtype),
                                        IF dtype = "int" THEN "int64" ELSE "float64")
              IN  IF err # "" THEN Raise(st, err)
                  ELSE ConvertLoopRaises(
                         [st EXCEPT !.df = df2,
                               !.log = _log_action(st.log,
                                   [BlankMsg EXCEPT !.text = "type converti", !.col = col,
                                                    !.word = dtype])],
                         Tail(type_dict))

convert_types_raises(st, type_dict) == ConvertLoopRaises(st, type_dict)

\* DataCleaner.convert_types; type_dict is the sequence of its items
convert_types(st, type_dict) == ConvertLoop(st, type_dict)

\* the text of one log entry, "[timestamp] message", by its parts
EntryText(e) == <<"[", e.ts, "]", " ", e.msg.text>>

\* a piece of text that is not a log entry, as a chunk of a returned string
Chunk(text) == [ts |-> "", msg |-> [BlankMsg EXCEPT !.text = text]]

RECURSIVE JoinLines(_)
\* "\n".join(log): the entries with a newline between neighbours
JoinLines(log) ==
    IF log = <<>> THEN <<>>
    ELSE IF Len(log) = 1 THEN <<log[1]>>
    ELSE <<log[1], Chunk("\n")>> \o JoinLines(Tail(log))

\* what a call hands back: type is "self", "str", "DataFrame" or "" (nothing,
\* the call raised); a str is given by its chunks, a DataFrame by the object
\* it is
Returned(type, items, ref) == [type |-> type, items |-> items, ref |-> ref]

\* mutant of get_log: no placeholder, the join of an empty log
get_log_joined(log) == Returned("str", JoinLines(log), "")

\* DataCleaner.get_log
get_log(log) ==
    IF log = <<>> THEN Returned("str", <<Chunk("Aucune opération effectuée.")>>, "")
    ELSE Returned("str", JoinLines(log), "")

(* ----------------------------- DataAuditor ------------------------------ *)
AllDtypes == {"int64", "float64", "object", "category"}

ColNames(df) == Range(df.cols)

\* (x / y) * 100 as the code writes it; x / 0 raises ZeroDivisionError in
\* Python, which the callers below decide before they divide
Pct(x, y) == RMul(Rat(x, y), RInt(100))

\* round(r, 3) for r >= 0, ties to even
Round3(r) ==
    LET scaled == r.n * 1000
        q == scaled \div r.d
        twice == 2 * (scaled % r.d)
    IN  IF twice < r.d \/ (twice = r.d /\ q % 2 = 0)
        THEN Rat(q, 1000) ELSE Rat(q + 1, 1000)

RECURSIVE InsertDesc(_, _)
\* pair <<col, count>> put behind every pair with a count at least as large
InsertDesc(x, s) ==
    IF s = <<>> THEN <<x>>
    ELSE IF s[1][2] >= x[2] THEN <<s[1]>> \o InsertDesc(x, Tail(s))
    ELSE <<x>> \o s

RECURSIVE SortDesc(_)
\* sort_values(ascending=False) of <<col, count>> pairs, ties in column order
SortDesc(s) ==
    IF s = <<>> THEN <<>>
    ELSE InsertDesc(s[Len(s)], SortDesc(SubSeq(s, 1, Len(s) - 1)))

\* DataAuditor._check_shape_and_dtypes
check_shape_and_dtypes(df) ==
    [shape |-> <<NRows(df), Len(df.cols)>>,
     dtypes_count |-> [d \in AllDtypes |->
                          Cardinality({c \in ColNames(df) : df.dtype[c] = d})],
     columns_by_type |->
        [numeric |-> select_dtypes(df, NumberKinds),
         text |-> select_dtypes(df, {"object", "category"}),
         datetime |-> <<>>,
         bool |-> <<>>]]

\* DataAuditor._check_missing_values
check_missing_values(df) ==
    LET counts == [i \in 1..Len(df.cols) |-> <<df.cols[i], ColNa(df, df.cols[i])>>]
        missing == SortDesc(Filter(counts, [i \in 1..Len(counts) |-> counts[i][2] > 0]))
    IN  [total |-> TotalNa(df),
         pct_total |-> IF NRows(df) > 0 THEN Pct(TotalNa(df), NRows(df)) ELSE RInt(0),
         by_column |-> missing,
         worst_column |-> IF missing # <<>> THEN missing[1][1] ELSE "",
         worst_count |-> IF missing # <<>> THEN missing[1][2] ELSE 0]

\* mutant of _check_duplicates: duplicated(keep=False), every member of a
\* group of equal rows is counted
check_duplicates_all(df) ==
    LET first == duplicated(df, "first")
        lastd == duplicated(df, "last")
        dup == CountTrue([i \in 1..NRows(df) |-> first[i] \/ lastd[i]])
    IN  [count |-> dup,
         pct |-> IF NRows(df) > 0 THEN Pct(dup, NRows(df)) ELSE RInt(0)]

\* mutant of _check_duplicates: a row counts only when it repeats the row
\* just before it
check_duplicates_adjacent(df) ==
    LET dup == CountTrue([i \in 1..NRows(df) |->
                            i > 1 /\ RowEq(df, df.rows[i - 1], df.rows[i])])
    IN  [count |-> dup,
         pct |-> IF NRows(df) > 0 THEN Pct(dup, NRows(df)) ELSE RInt(0)]

\* DataAuditor._check_duplicates
check_duplicates(df) ==
    LET dup == CountTrue(duplicated(df, "first"))
    IN  [count |-> dup,
         pct |-> IF NRows(df) > 0 THEN Pct(dup, NRows(df)) ELSE RInt(0)]

\* mutant of _check_constants_and_low_variance: the row threshold is
\* len(self.df) >= 20
check_constants_and_low_variance_ge(df) ==
    LET n(i) == nunique(Column(df, df.cols[i]))
    IN  [constants |-> Filter(df.cols, [i \in 1..Len(df.cols) |-> n(i) <= 1]),
         low_variance |->
            Filter([i \in 1..Len(df.cols) |-> <<df.cols[i], n(i)>>],
                   [i \in 1..Len(df.cols) |-> 1 < n(i) /\ n(i) <= 5 /\ NRows(df) >= 20])]

\* DataAuditor._check_constants_and_low_variance
check_constants_and_low_variance(df) ==
    LET n(i) == nunique(Column(df, df.cols[i]))
    IN  [constants |-> Filter(df.cols, [i \in 1..Len(df.cols) |-> n(i) <= 1]),
         low_variance |->
            Filter([i \in 1..Len(df.cols) |-> <<df.cols[i], n(i)>>],
                   [i \in 1..Len(df.cols) |-> 1 < n(i) /\ n(i) <= 5 /\ NRows(df) > 20])]

\* DataAuditor._check_outliers, for one column
OutlierInfo(col, values) ==
    LET v == NumValues(values)
        q1 == RatOf(quantile(values, 1, 4))
        q3 == RatOf(quantile(values, 3, 4))
        iqr == RSub(q3, q1)
        lo == RSub(q1, RMul(Rat(3, 2), iqr))
        hi == RAdd(q3, RMul(Rat(3, 2), iqr))
        m == RDiv(SumSeq(v), RInt(Len(v)))
        sq(x) == RMul(RSub(x, m), RSub(x, m))
        \* std(ddof=0) squared: the mean of the squares less the square of the mean
        var == RSub(RDiv(SumSeq([i \in 1..Len(v) |-> RMul(v[i], v[i])]), RInt(Len(v))),
                    RMul(m, m))
        sorted == SortRat(v)
    IN  [col |-> col,
         iqr_count |-> Cardinality({i \in DOMAIN v : RLt(v[i], lo) \/ RLt(hi, v[i])}),
         \* |x - mean| / std > 3, squared
         z3_count |-> Cardinality({i \in DOMAIN v : RLt(RMul(RInt(9), var), sq(v[i]))}),
         min_val |-> sorted[1],
         max_val |-> sorted[Len(sorted)]]

\* mutant of _check_outliers: a column of exactly 5 distinct values is skipped
check_outliers_gt(df) ==
    LET numeric_cols == select_dtypes(df, NumberKinds)
        kept == Filter(numeric_cols,
                       [i \in 1..Len(numeric_cols) |->
                           nunique(Column(df, numeric_cols[i])) > 5])
    IN  [i \in 1..Len(kept) |-> OutlierInfo(kept[i], Column(df, kept[i]))]

\* DataAuditor._check_outliers
check_outliers(df) ==
    LET numeric_cols == select_dtypes(df, NumberKinds)
        kept == Filter(numeric_cols,
                       [i \in 1..Len(numeric_cols) |->
                           nunique(Column(df, numeric_cols[i])) >= 5])
    IN  [i \in 1..Len(kept) |-> OutlierInfo(kept[i], Column(df, kept[i]))]

\* DataAuditor._check_high_cardinality: ratio = nunique / len(df) is
\* computed for every object / category column, so it needs a row
HighCardinalityRaises(df) ==
    select_dtypes(df, {"object", "category"}) # <<>> /\ NRows(df) = 0

check_high_cardinality(df) ==
    LET cols == select_dtypes(df, {"object", "category"})
        u(i) == nunique(Column(df, cols[i]))
        kept == Filter(cols, [i \in 1..Len(cols) |-> 4 * u(i) > NRows(df)])
    IN  [i \in 1..Len(kept) |->
            [col |-> kept[i],
             unique_count |-> nunique(Column(df, kept[i])),
             ratio |-> Round3(Rat(nunique(Column(df, kept[i])), NRows(df)))]]

\* DataAuditor._check_string_issues
check_string_issues(df) ==
    LET cols == select_dtypes(df, {"object"})
        text(col) == [i \in 1..NRows(df) |-> PyStr(df.rows[i][col])]
        problems(col) ==
            [col |-> col,
             empty_or_whitespace |->
                Cardinality({i \in 1..NRows(df) : Strip(text(col)[i]) = <<>>}),
             very_long_200 |->
                Cardinality({i \in 1..NRows(df) : Len(text(col)[i]) > 200}),
             very_short_nonempty |->
                Cardinality({i \in 1..NRows(df) :
                                Len(text(col)[i]) > 0 /\ Len(text(col)[i]) <= 2})]
        any(p) == p.empty_or_whitespace + p.very_long_200 + p.very_short_nonempty > 0
        all == [i \in 1..Len(cols) |-> problems(cols[i])]
    IN  Filter(all, [i \in 1..Len(all) |-> any(all[i])])

NoReport == [sections |-> <<>>]

\* DataAuditor._run_audit: the checks in order; the first one that raises
\* ends the audit
run_audit(df) ==
    IF HighCardinalityRaises(df)
    THEN [fault |-> "ZeroDivisionError", report |-> NoReport]
    ELSE [fault |-> "",
          report |->
            [sections |->
               <<[shape |-> check_shape_and_dtypes(df),
                  missing_values |-> check_missing_values(df),
                  duplicates |-> check_duplicates(df),
                  variance |-> check_constants_and_low_variance(df),
                  outliers |-> check_outliers(df),
                  high_cardinality |-> check_high_cardinality(df),
                  string_problems |-> check_string_issues(df)]>>]]

(* ------------------------------- state --------------------------------- *)
\* store: the DataFrame objects, by the name of the one who created them
\* cl:    the DataCleaner objects; df names the DataFrame self.df refers to,
\*        calls counts the mutating calls made on the object, and writer[i]
\*        is the number of the call that wrote log[i]
\* last:  the call made last, its arguments and how it ended
\* aud:   the DataAuditor object
Cleaners == {"c1", "c2"}
Refs == {"caller", "aud"} \cup Cleaners

NoCleaner == [built |-> FALSE, df |-> "", log |-> <<>>, calls |-> 0, writer |-> <<>>]

NoArgs ==
    [keep |-> "", strategy |-> "", columns |-> <<>>, fill_value |-> NaN,
     flags |-> <<>>, replace_na |-> NaN, to_replace |-> <<>>,
     multiplier |-> RInt(0), type_dict |-> <<>>]

NoAuditor == [built |-> FALSE, report |-> NoReport, runs |-> 0]

NoCall == [op |-> "", who |-> "", args |-> NoArgs, fault |-> "",
           ret |-> Returned("", <<>>, "")]

(* --------------------------- the caller's data -------------------------- *)
Hello == <<" ", " ", "A", " ", " ", " ", "é", " ", " ">>

\* the rows the caller's DataFrame is made of: columns Age and Nom
RowVals ==
    { [Age |-> IntCell(1), Nom |-> StrCell(Hello)],
      [Age |-> NaN,        Nom |-> StrCell(<<"7">>)],
      [Age |-> IntCell(9), Nom |-> NaN] }

\* pd.DataFrame(rows): a numeric column with a hole is float64, without one
\* int64; text is object
MakeFrame(rows) ==
    LET isFloat == rows = <<>> \/ \E i \in DOMAIN rows : IsNa(rows[i].Age)
    IN  [cols |-> <<"Age", "Nom">>,
         dtype |-> [Age |-> IF isFloat THEN "float64" ELSE "int64", Nom |-> "object"],
         rows |-> [i \in 1..Len(rows) |->
                     [rows[i] EXCEPT !.Age = IF isFloat THEN FillCell("float64", @) ELSE @]]]

RowSeqs(n) == UNION {[1..m -> RowVals] : m \in 0..n}

InitFrames == {MakeFrame(r) : r \in RowSeqs(MaxRows)}

(* ------------------------------ actions -------------------------------- *)
\* mutant of __init__: self.df = df, without the copy
CleanerInit_alias(st, c) ==
    [store |-> st,
     inst |-> [NoCleaner EXCEPT !.built = TRUE, !.df = "caller"]]

\* DataCleaner.__init__: self.df = df.copy(); self.log = []
CleanerInit(st, c) ==
    [store |-> [st EXCEPT ![c] = st["caller"]],
     inst |-> [NoCleaner EXCEPT !.built = TRUE, !.df = c]]

Construct(c) ==
    /\ ~cl[c].built
    /\ LET r == CleanerInit(store, c)
       IN  /\ store' = r.store
           /\ cl' = [cl EXCEPT ![c] = r.inst]
    /\ last' = [NoCall EXCEPT !.op = "__init__", !.who = c]
    /\ UNCHANGED aud

\* the state a method of c starts from
Start(c) == Work(store[cl[c].df], cl[c].log)

\* A mutating method of c has run and left res: writes into self.df went to
\* the object it refers to, a rebinding made a new object; the method
\* returns self unless it raised.
Finish(c, op, args, res) ==
    /\ store' = IF res.rebound THEN [store EXCEPT ![c] = res.df]
                ELSE [store EXCEPT ![cl[c].df] = res.df]
    /\ cl' = [cl EXCEPT ![c] =
                [@ EXCEPT !.df = IF res.rebound THEN c ELSE @,
                          !.log = res.log,
                          !.calls = @ + 1,
                          !.writer = @ \o [i \in 1..(Len(res.log) - Len(cl[c].log))
                                              |-> cl[c].calls + 1]]]
    /\ last' = [op |-> op, who |-> c, args |-> args, fault |-> res.fault,
                ret |-> IF res.fault = "" THEN Returned("self", <<>>, c)
                        ELSE Returned("", <<>>, "")]
    /\ UNCHANGED aud

CanCall(c) == cl[c].built /\ cl[c].calls < MaxCalls

\* the mutating calls made on all DataCleaners
TotalCalls == cl["c1"].calls + cl["c2"].calls

DropDuplicates(c, keep) ==
    /\ CanCall(c)
    /\ Finish(c, "drop_duplicates", [NoArgs EXCEPT !.keep = keep],
              drop_duplicates(Start(c), keep))

HandleMissing(c, strategy, columns, fill_value) ==
    /\ CanCall(c)
    /\ Finish(c, "handle_missing",
              [NoArgs EXCEPT !.strategy = strategy, !.columns = columns,
                             !.fill_value = fill_value],
              handle_missing(Start(c), strategy, columns, fill_value))

CleanStrings(c, columns, flags, replace_na) ==
    /\ CanCall(c)
    /\ Finish(c, "clean_strings",
              [NoArgs EXCEPT !.columns = columns, !.flags = flags,
                             !.replace_na = replace_na],
              clean_strings(Start(c), columns, flags[1], flags[2], flags[3], replace_na))

RemoveAccents(c, columns) ==
    /\ CanCall(c)
    /\ Finish(c, "remove_accents", [NoArgs EXCEPT !.columns = columns],
              remove_accents(Start(c), columns))

ReplaceInStrings(c, columns, to_replace) ==
    /\ CanCall(c)
    /\ Finish(c, "replace_in_strings",
              [NoArgs EXCEPT !.columns = columns, !.to_replace = to_replace],
              replace_in_strings(Start(c), columns, to_replace))

RemoveOutliersIqr(c, columns, multiplier) ==
    /\ CanCall(c)
    /\ Finish(c, "remove_outliers_iqr",
              [NoArgs EXCEPT !.columns = columns, !.multiplier = multiplier],
              remove_outliers_iqr(Start(c), columns, multiplier))

ConvertTypes(c, type_dict) ==
    /\ CanCall(c)
    /\ Finish(c, "convert_types", [NoArgs EXCEPT !.type_dict = type_dict],
              convert_types(Start(c), type_dict))

\* get_log(): reads self.log
GetLog(c) ==
    /\ cl[c].built
    /\ last' = [NoCall EXCEPT !.op = "get_log", !.who = c, !.ret = get_log(cl[c].log)]
    /\ UNCHANGED <<store, cl, aud>>

\* get_cleaned_df(): hands out the object self.df refers to
GetCleanedDf(c) ==
    /\ cl[c].built
    /\ last' = [NoCall EXCEPT !.op = "get_cleaned_df", !.who = c,
                              !.ret = Returned("DataFrame", <<>>, cl[c].df)]
    /\ UNCHANGED <<store, cl, aud>>

\* summary(): prints the shape, the NaN and duplicate counts and get_log();
\* returns self
Summary(c) ==
    /\ cl[c].built
    /\ last' = [NoCall EXCEPT !.op = "summary", !.who = c,
                              !.ret = Returned("self", <<>>, c)]
    /\ UNCHANGED <<store, cl, aud>>

(* ------------------------- arguments of the calls ----------------------- *)
\* columns=None is written << >>; "Zzz" is no column of the DataFrame
Keeps == {"first", "last"}
Strategies == {"drop", "mean", "median", "mode", "zero", "custom"}
ColumnArgs == {<<>>, <<"Age", "Zzz">>}
TextColumnArgs == {<<>>, <<"Nom", "Zzz">>}
HandleMissingArgs ==
    {<<s, (<<>>), NaN>> : s \in Strategies}
        \cup {<<s, (<<"Age", "Zzz">>), NaN>> : s \in {"drop", "mean", "zero"}}
        \cup {<<"custom", (<<>>), IntCell(7)>>}
\* <<lowercase, strip, remove_extra_spaces>>
Flags == {<<a, b, c>> : a \in BOOLEAN, b \in BOOLEAN, c \in BOOLEAN} \
            {<<TRUE, TRUE, FALSE>>, <<FALSE, TRUE, FALSE>>}
Empty == StrCell(<<>>)
CleanStringsArgs ==
    {<<(<<>>), f, Empty>> : f \in Flags}
        \cup {<<(<<>>), <<FALSE, TRUE, TRUE>>, NaN>>,
              <<(<<"Nom", "Zzz">>), <<FALSE, TRUE, TRUE>>, Empty>>}
Rules == << <<(<<"A">>), (<<"é">>)>>, <<(<<"é">>), (<<"e">>)>> >>
ReplaceArgs == {<<(<<>>), (<<>>)>>, <<(<<>>), Rules>>, <<(<<"Nom", "Zzz">>), Rules>>}
Multipliers == {RInt(0), Rat(3, 2)}
OutlierArgs ==
    {<<(<<>>), m>> : m \in Multipliers}
        \cup {<<(<<"Age", "Zzz">>), RInt(0)>>, <<(<<"Nom">>), Rat(3, 2)>>}
TypeDicts ==
    { << <<"Age", "int">> >>,
      << <<"Age", "foo">>, <<"Nom", "category">> >>,
      << <<"Nom", "float">> >>,
      << <<"Zzz", "int">>, <<"Age", "float">> >> }

(* ---------------------------- specification ---------------------------- *)
Init ==
    /\ \E f \in InitFrames : store = [r \in Refs |-> IF r = "caller" THEN f ELSE NoFrame]
    /\ cl = [c \in Cleaners |-> NoCleaner]
    /\ last = NoCall
    /\ aud = NoAuditor

\* one DataCleaner, every method
Next ==
    \/ Construct("c1")
    \/ \E keep \in Keeps : DropDuplicates("c1", keep)
    \/ \E a \in HandleMissingArgs : HandleMissing("c1", a[1], a[2], a[3])
    \/ \E a \in CleanStringsArgs : CleanStrings("c1", a[1], a[2], a[3])
    \/ \E columns \in TextColumnArgs : RemoveAccents("c1", columns)
    \/ \E a \in ReplaceArgs : ReplaceInStrings("c1", a[1], a[2])
    \/ \E a \in OutlierArgs : RemoveOutliersIqr("c1", a[1], a[2])
    \/ \E type_dict \in TypeDicts : ConvertTypes("c1", type_dict)
    \/ GetLog("c1")
    \/ GetCleanedDf("c1")
    \/ Summary("c1")

Spec == Init /\ [][Next]_vars

(* ------------------------- the Auditor's actions ------------------------ *)
\* DataAuditor.__init__: self.df = df.copy(); self.report = {};
\* self._run_audit().  An exception leaves the caller without an object.
AuditorInit(st) ==
    LET df == st["caller"]
        r == run_audit(df)
    IN  IF r.fault # ""
        THEN [store |-> st, aud |-> NoAuditor, fault |-> r.fault]
        ELSE [store |-> [st EXCEPT !["aud"] = df],
              aud |-> [built |-> TRUE, report |-> r.report, runs |-> 1],
              fault |-> ""]

AuditorConstruct ==
    /\ ~aud.built
    /\ LET r == AuditorInit(store)
       IN  /\ store' = r.store
           /\ aud' = r.aud
           /\ last' = [NoCall EXCEPT !.op = "DataAuditor", !.who = "aud",
                                     !.fault = r.fault]
    /\ UNCHANGED cl

\* reading auditor.report
ReadReport ==
    /\ aud.built
    /\ last' = [NoCall EXCEPT !.op = "report", !.who = "aud",
                              !.ret = Returned("dict", aud.report.sections, "")]
    /\ UNCHANGED <<store, cl, aud>>

\* mutant of print_report: the audit is run again before printing
print_report_rerun(a, df) ==
    [aud |-> [a EXCEPT !.report = run_audit(df).report, !.runs = @ + 1],
     df |-> df, printed |-> run_audit(df).report.sections]

\* DataAuditor.print_report: r = self.report is formatted and printed, with
\* row counts read from self.df; nothing is assigned.  What is printed is
\* given by the report it was formatted from.
print_report(a, df) ==
    [aud |-> a, df |-> df, printed |-> a.report.sections]

PrintReport ==
    /\ aud.built
    /\ LET r == print_report(aud, store["aud"])
       IN  /\ aud' = r.aud
           /\ store' = [store EXCEPT !["aud"] = r.df]
           /\ last' = [NoCall EXCEPT !.op = "print_report", !.who = "aud",
                                     !.ret = Returned("printed", r.printed, "")]
    /\ UNCHANGED cl

\* the caller's DataFrames the Auditor is tried on: Age and Nom, Age alone,
\* and Age with Nom as a category column
AgeOnly(df) ==
    [cols |-> <<"Age">>, dtype |-> [c \in {"Age"} |-> df.dtype.Age],
     rows |-> [i \in 1..NRows(df) |-> [c \in {"Age"} |-> df.rows[i].Age]]]

AuditFrames ==
    InitFrames
        \cup {AgeOnly(f) : f \in InitFrames}
        \cup {[f EXCEPT !.dtype.Nom = "category"] : f \in InitFrames}

InitAudit ==
    /\ \E f \in AuditFrames : store = [r \in Refs |-> IF r = "caller" THEN f ELSE NoFrame]
    /\ cl = [c \in Cleaners |-> NoCleaner]
    /\ last = NoCall
    /\ aud = NoAuditor

NextAudit ==
    \/ AuditorConstruct
    \/ ReadReport
    \/ PrintReport

SpecAudit == InitAudit /\ [][NextAudit]_vars

(* ------------------------- DataFrames of many rows ---------------------- *)
\* the row count above which a column of few values is of low variance
LowVarianceRows == 20

\* the row counts around the threshold
LongLens == {LowVarianceRows - 1 + m : m \in 0..MaxRows}

\* A DataFrame of n rows whose column Age cycles through ka integers and
\* whose column Nom cycles through kn one-character texts; 0 values make a
\* column of missing values, and hole makes the first Age missing.
LongFrame(n, ka, kn, hole) ==
    MakeFrame([i \in 1..n |->
        [Age |-> IF ka = 0 \/ (hole /\ i = 1) THEN NaN ELSE IntCell(i % ka),
         Nom |-> IF kn = 0 THEN NaN ELSE StrCell(<<DigitChars[(i % kn) + 1]>>)]])

LongFrames ==
    {LongFrame(n, ka, kn, hole) :
        n \in LongLens, ka \in 0..MaxDistinct, kn \in {0, 1, 2, 5, 6}, hole \in BOOLEAN}

InitLong ==
    /\ \E f \in LongFrames : store = [r \in Refs |-> IF r = "caller" THEN f ELSE NoFrame]
    /\ cl = [c \in Cleaners |-> NoCleaner]
    /\ last = NoCall
    /\ aud = NoAuditor

\* the Auditor on DataFrames of many rows
SpecLong == InitLong /\ [][NextAudit]_vars

(* ----------------------- DataFrames of two numbers ---------------------- *)
\* the columns Age and Salaire the outlier filter is tried on, as the values
\* of their rows; a DataFrame takes the first n values of one of each
IqrAges ==
    { <<IntCell(1), IntCell(2), IntCell(3), IntCell(4), IntCell(5), IntCell(1000),
        IntCell(6)>>,
      <<IntCell(1000), IntCell(5), IntCell(1), IntCell(4), IntCell(2), IntCell(3),
        IntCell(6)>>,
      <<NaN, IntCell(2), IntCell(3), IntCell(4), IntCell(5), IntCell(1000),
        IntCell(6)>> }

IqrSalaires ==
    { <<IntCell(1), IntCell(2), IntCell(3), IntCell(4), IntCell(10), IntCell(1000),
        IntCell(7)>>,
      <<IntCell(7), IntCell(1), IntCell(-50), IntCell(3), IntCell(5), IntCell(2),
        IntCell(4)>> }

IqrLens == {4 + m : m \in 1..MaxRows}

\* pd.DataFrame({'Age': a, 'Salaire': s}): a column with a hole is float64
NumFrame(a, s) ==
    LET dt(v) == IF \E i \in DOMAIN v : IsNa(v[i]) THEN "float64" ELSE "int64"
    IN  [cols |-> <<"Age", "Salaire">>,
         dtype |-> [Age |-> dt(a), Salaire |-> dt(s)],
         rows |-> [i \in 1..Len(a) |->
                     [Age |-> IF dt(a) = "float64" THEN FillCell("float64", a[i]) ELSE a[i],
                      Salaire |-> IF dt(s) = "float64" THEN FillCell("float64", s[i])
                                  ELSE s[i]]]]

IqrFrames ==
    {NumFrame(SubSeq(a, 1, n), SubSeq(s, 1, n)) :
        a \in IqrAges, s \in IqrSalaires, n \in IqrLens}

IqrColumns == {<<"Age">>, <<"Salaire">>, <<"Age", "Salaire">>, <<"Salaire", "Age">>}
IqrMultipliers == {RInt(0), Rat(3, 2), RInt(3)}

InitIqr ==
    /\ \E f \in IqrFrames : store = [r \in Refs |-> IF r = "caller" THEN f ELSE NoFrame]
    /\ cl = [c \in Cleaners |-> NoCleaner]
    /\ last = NoCall
    /\ aud = NoAuditor

\* two DataCleaners on the same numbers, each filtering outliers as its
\* first call
NextIqr ==
    \/ \E c \in Cleaners : Construct(c)
    \/ \E c \in Cleaners, columns \in IqrColumns, multiplier \in IqrMultipliers :
          cl[c].calls = 0 /\ RemoveOutliersIqr(c, columns, multiplier)

SpecIqr == InitIqr /\ [][NextIqr]_vars

(* ------------------------ DataFrames with holes ------------------------- *)
\* the rows of a DataFrame of two numeric columns and a text column
ImputeVals ==
    { [Age |-> IntCell(10), Nom |-> StrCell(<<"7">>), Salaire |-> IntCell(4)],
      [Age |-> IntCell(20), Nom |-> NaN,              Salaire |-> NaN],
      [Age |-> NaN,         Nom |-> StrCell(Hello),   Salaire |-> IntCell(2)] }

\* a column of five rows, one of them missing
MedianRows ==
    [i \in 1..5 |->
        [Age |-> <<IntCell(1), IntCell(2), NaN, IntCell(100), IntCell(3)>>[i],
         Nom |-> StrCell(<<"7">>), Salaire |-> IntCell(4)]]

ImputeLens == 1..(MaxRows + 1)

\* pd.DataFrame(rows): a numeric column with a hole is float64
ImputeFrame(rows) ==
    LET dt(col) == IF \E i \in DOMAIN rows : IsNa(rows[i][col])
                   THEN "float64" ELSE "int64"
    IN  [cols |-> <<"Age", "Nom", "Salaire">>,
         dtype |-> [Age |-> dt("Age"), Nom |-> "object", Salaire |-> dt("Salaire")],
         rows |-> [i \in 1..Len(rows) |->
                     [Age |-> FillCell(dt("Age"), rows[i].Age),
                      Nom |-> rows[i].Nom,
                      Salaire |-> FillCell(dt("Salaire"), rows[i].Salaire)]]]

ImputeFrames ==
    {ImputeFrame(r) : r \in UNION {[1..m -> ImputeVals] : m \in ImputeLens}}
        \cup {ImputeFrame(MedianRows)}

ImputeStrategies == {"mean", "median", "mode"}
ImputeColumns == {<<>>, <<"Age">>, <<"Nom", "Salaire">>}

InitImpute ==
    /\ \E f \in ImputeFrames : store = [r \in Refs |-> IF r = "caller" THEN f ELSE NoFrame]
    /\ cl = [c \in Cleaners |-> NoCleaner]
    /\ last = NoCall
    /\ aud = NoAuditor

\* one DataCleaner, imputing with a statistic
NextImpute ==
    \/ Construct("c1")
    \/ \E strategy \in ImputeStrategies, columns \in ImputeColumns :
          HandleMissing("c1", strategy, columns, NaN)

SpecImpute == InitImpute /\ [][NextImpute]_vars

(* --------------------------- type conversions --------------------------- *)
\* the type_dict arguments with a numeric target
NumericTypeDicts ==
    { << <<"Nom", "int">> >>,
      << <<"Nom", "float">> >>,
      << <<"Age", "int">> >>,
      << <<"Nom", "int">>, <<"Age", "float">> >> }

\* one DataCleaner, converting to numeric types
NextConvert ==
    \/ Construct("c1")
    \/ \E type_dict \in NumericTypeDicts : ConvertTypes("c1", type_dict)

SpecConvert == Init /\ [][NextConvert]_vars

(* ------------------------ Cleaner and Auditor --------------------------- *)
\* DataAuditor(df) or DataAuditor(cleaner.get_cleaned_df()): an Auditor built
\* on the DataFrame ref names, the caller's or the one of a DataCleaner
AuditView(ref) ==
    /\ ~aud.built
    /\ ref \in Cleaners => cl[ref].built
    /\ LET df == IF ref \in Cleaners THEN store[cl[ref].df] ELSE store[ref]
           r == AuditorInit([store EXCEPT !["caller"] = df])
       IN  /\ store' = [r.store EXCEPT !["caller"] = store["caller"]]
           /\ aud' = r.aud
           /\ last' = [NoCall EXCEPT !.op = "DataAuditor", !.who = "aud",
                                     !.fault = r.fault]
    /\ UNCHANGED cl

\* one DataCleaner dropping duplicates, and an Auditor built on the caller's
\* DataFrame or on the DataCleaner's
NextDup ==
    \/ Construct("c1")
    \/ \E keep \in Keeps : DropDuplicates("c1", keep)
    \/ \E ref \in {"caller", "c1"} : AuditView(ref)

SpecDup == InitImpute /\ [][NextDup]_vars

(* --------------------------- text replacements -------------------------- *)
\* the rows of a DataFrame whose texts hold the characters the rules are about
ReplaceVals ==
    { [Age |-> IntCell(1), Nom |-> StrCell(<<"a", ".", "b">>)],
      [Age |-> IntCell(9), Nom |-> StrCell(<<"b", "a">>)],
      [Age |-> NaN,        Nom |-> NaN] }

ReplaceFrames == {MakeFrame(r) : r \in UNION {[1..m -> ReplaceVals] : m \in 1..MaxRows}}

\* to_replace dicts, as the (old, new) pairs in insertion order
ReplaceRules ==
    { << <<(<<"a">>), (<<"b">>)>>, <<(<<"b">>), (<<"c">>)>> >>,
      << <<(<<"b">>), (<<"c">>)>>, <<(<<"a">>), (<<"b">>)>> >>,
      << <<(<<".">>), (<<"a">>)>>, <<(<<"a">>), (<<"b">>)>> >> }

InitReplace ==
    /\ \E f \in ReplaceFrames : store = [r \in Refs |-> IF r = "caller" THEN f ELSE NoFrame]
    /\ cl = [c \in Cleaners |-> NoCleaner]
    /\ last = NoCall
    /\ aud = NoAuditor

\* one DataCleaner, replacing in its texts
NextReplace ==
    \/ Construct("c1")
    \/ \E columns \in {<<>>, <<"Nom">>}, to_replace \in ReplaceRules :
          ReplaceInStrings("c1", columns, to_replace)

SpecReplace == InitReplace /\ [][NextReplace]_vars

(* --------------------------- two DataCleaners --------------------------- *)
\* two DataCleaners built from the same DataFrame, their calls interleaved
More == TotalCalls < MaxCalls

NextTwo ==
    \/ \E c \in Cleaners : Construct(c)
    \/ \E c \in Cleaners : More /\ DropDuplicates(c, "first")
    \/ \E c \in Cleaners, s \in {"drop", "mean", "zero"} :
          More /\ HandleMissing(c, s, <<>>, NaN)
    \/ \E c \in Cleaners : More /\ CleanStrings(c, <<>>, <<FALSE, TRUE, TRUE>>, Empty)
    \/ \E c \in Cleaners : More /\ RemoveAccents(c, <<>>)
    \/ \E c \in Cleaners : More /\ ReplaceInStrings(c, <<>>, Rules)
    \/ \E c \in Cleaners : More /\ RemoveOutliersIqr(c, <<>>, RInt(0))
    \/ \E c \in Cleaners :
          More /\ ConvertTypes(c, << <<"Age", "foo">>, <<"Nom", "category">> >>)
    \/ \E c \in Cleaners : GetCleanedDf(c)

SpecTwo == Init /\ [][NextTwo]_vars

(* ------------------------------ properties ----------------------------- *)
\* the DataFrame and the log of DataCleaner c, before and after a step
ViewOf(c) == store[cl[c].df]
NewEntries(c) == SubSeq(cl[c].log', Len(cl[c].log) + 1, Len(cl[c].log'))
\* the step is a call of a mutating method on c
Called(c) == cl[c].built /\ cl[c].calls' = cl[c].calls + 1

\* the columns a method works on: the ones named, else the ones of the kinds
Targets(df, columns, kinds) ==
    IF columns # <<>> THEN columns ELSE select_dtypes(df, kinds)
CountCols(df, cols, ok(_)) ==
    Cardinality({i \in DOMAIN cols : HasCol(df, cols[i]) /\ ok(cols[i])})

\* how many entries a call of op with args on df writes when it runs through
EntriesOf(op, args, df) ==
    LET any(col) == TRUE
        numeric(col) == is_numeric_dtype(df.dtype[col])
    IN  CASE op = "drop_duplicates" -> 1
          [] op = "handle_missing" ->
               (CASE args.strategy \in {"drop", "zero"} -> 1
                  [] args.strategy = "custom" -> IF IsNa(args.fill_value) THEN 0 ELSE 1
                  [] OTHER -> CountCols(df, Targets(df, args.columns, AllDtypes), numeric))
          [] op \in {"clean_strings", "remove_accents"} ->
               CountCols(df, Targets(df, args.columns, TextKinds), any)
          [] op = "replace_in_strings" ->
               IF args.to_replace = <<>> THEN 0
               ELSE CountCols(df, Targets(df, args.columns, TextKinds), any)
          [] op = "remove_outliers_iqr" ->
               CountCols(df, Targets(df, args.columns, NumberKinds), numeric)
          [] OTHER -> CountCols(df, [i \in 1..Len(args.type_dict) |-> args.type_dict[i][1]],
                                any)

C2_LogAppendOnly ==
    [][\A c \in Cleaners : IsPrefix(cl[c].log, cl[c].log')]_vars

\* a second call has appended to a log that held entries, and it was read
C2_Witness ==
    /\ cl["c1"].calls = 2
    /\ Len(cl["c1"].log) >= 2
    /\ cl["c1"].writer[1] = 1
    /\ cl["c1"].writer[Len(cl["c1"].log)] = 2
    /\ last.op = "summary"

\* C3 as stated: a call that raises leaves the DataFrame and the log as they
\* were before the call.
C3_FaultLeavesNoEffect ==
    [][\A c \in Cleaners : (Called(c) /\ last'.fault # "") =>
          /\ store' = store
          /\ cl[c].log' = cl[c].log]_vars

\* C5 as stated: handle_missing('custom') without a fill value leaves the
\* DataFrame alone, appends a log entry, raises nothing and returns self.
C5_CustomWithoutValueIsLogged ==
    [][\A c \in Cleaners :
          (/\ Called(c)
           /\ last'.op = "handle_missing"
           /\ last'.args.strategy = "custom"
           /\ IsNa(last'.args.fill_value)) =>
          /\ store' = store
          /\ Len(cl[c].log') = Len(cl[c].log) + 1
          /\ last'.fault = ""
          /\ last'.ret.type = "self"]_vars

\* a value pd.to_numeric(..., errors='coerce') leaves missing
NotConvertible(c) == IsNa(c) \/ (IsStr(c) /\ IsNa(ParseNum(c.s)))

\* the conversion of the column as a whole fails: the target type is not
\* supported, or it is the integer type and a value is left missing
ConversionFails(values, dtype) ==
    \/ dtype \notin {"category", "int", "float"}
    \/ dtype = "int" /\ \E i \in DOMAIN values : NotConvertible(values[i])

\* C6: in convert_types a column whose conversion fails as a whole raises
\* nothing to the caller, gets one error entry naming it and keeps its values
\* and dtype; the other pairs of the call are converted and logged, and the
\* call returns self so that the chain goes on.
C6_ConvertErrorIsLogged ==
    [][\A c \in Cleaners : (Called(c) /\ last'.op = "convert_types") =>
          LET td == last'.args.type_dict
              df == ViewOf(c)
              after == store'[cl[c].df']
              pairs == Filter(td, [i \in 1..Len(td) |-> HasCol(df, td[i][1])])
              new == NewEntries(c)
          IN  /\ last'.fault = ""
              /\ last'.ret = Returned("self", <<>>, c)
              /\ IsPrefix(cl[c].log, cl[c].log')
              /\ Len(new) = Len(pairs)
              /\ \A i \in DOMAIN pairs :
                    LET col == pairs[i][1]
                        dtype == pairs[i][2]
                    IN  /\ new[i].msg.col = col
                        /\ IF ConversionFails(Column(df, col), dtype)
                           THEN /\ new[i].msg.text = "Erreur conversion"
                                /\ Column(after, col) = Column(df, col)
                                /\ after.dtype[col] = df.dtype[col]
                           ELSE /\ new[i].msg.text = "type converti"
                                /\ after.dtype[col] =
                                      (CASE dtype = "int" -> "int64"
                                         [] dtype = "float" -> "float64"
                                         [] OTHER -> "category")]_vars

\* convert_types({'Age': 'foo', 'Nom': 'category'}) has run: an error entry
\* for Age, then the conversion of Nom
C6_Witness ==
    LET log == cl["c1"].log
    IN  /\ last.op = "convert_types"
        /\ last.args.type_dict = << <<"Age", "foo">>, <<"Nom", "category">> >>
        /\ Len(log) >= 2
        /\ log[Len(log) - 1].msg.text = "Erreur conversion"
        /\ log[Len(log) - 1].msg.col = "Age"
        /\ log[Len(log)].msg.text = "type converti"
        /\ ViewOf("c1").dtype["Nom"] = "category"
        /\ ViewOf("c1").dtype["Age"] # "category"

\* the text that lower(), strip() and the collapse of whitespace runs make
Normalised(chars) == CollapseSpaces(Strip(Lower(chars)))

\* C9 as stated: clean_strings with lowercase, strip and remove_extra_spaces
\* all on runs through and leaves every text value of the target columns
\* lowercased, trimmed and with single spaces.
C9_CleanStringsNormalises ==
    [][\A c \in Cleaners :
          (/\ Called(c)
           /\ last'.op = "clean_strings"
           /\ last'.args.flags = <<TRUE, TRUE, TRUE>>) =>
          LET df == ViewOf(c)
              after == store'[cl[c].df']
              cols == Targets(df, last'.args.columns, TextKinds)
          IN  (/\ \A j \in DOMAIN cols : HasCol(df, cols[j])
               /\ \E j \in DOMAIN cols : \E i \in 1..NRows(df) :
                     IsStr(df.rows[i][cols[j]])) =>
                /\ last'.fault = ""
                /\ \A j \in DOMAIN cols : \A i \in 1..NRows(df) :
                      IsStr(df.rows[i][cols[j]]) =>
                         after.rows[i][cols[j]] =
                            StrCell(Normalised(df.rows[i][cols[j]].s))]_vars

\* C10 as stated: get_log returns the log as a sequence of entries, the empty
\* sequence when nothing has run.
C10_GetLogReturnsSequence ==
    last.op = "get_log" =>
        /\ last.ret.type = "list"
        /\ last.ret.items = cl[last.who].log

\* C10 as amended: get_log returns one string: the entries in order joined by
\* newlines, and on a DataCleaner whose log is empty the placeholder text
\* "Aucune opération effectuée." (no error, but not an empty sequence).
C10_GetLogReturnsText ==
    last.op = "get_log" =>
        LET log == cl[last.who].log
            items == last.ret.items
        IN  /\ last.fault = ""
            /\ last.ret.type = "str"
            /\ log = <<>> => items = <<Chunk("Aucune opération effectuée.")>>
            /\ log # <<>> =>
                  /\ Len(items) = 2 * Len(log) - 1
                  /\ \A i \in DOMAIN log : items[2 * i - 1] = log[i]
                  /\ \A i \in 1..(Len(log) - 1) : items[2 * i] = Chunk("\n")

\* get_log on a DataCleaner on which nothing has run
C10_Witness ==
    /\ last.op = "get_log"
    /\ cl[last.who].calls = 0
    /\ cl[last.who].log = <<>>
    /\ last.ret.items # <<>>

\* C4 as stated: an Auditor built on a DataFrame with no rows, whatever its
\* columns and dtypes, is built without an exception, and every percentage
\* and ratio of its report is 0.
C4_EmptyFrameAudits ==
    (last.op = "DataAuditor" /\ NRows(store["caller"]) = 0) =>
        /\ last.fault = ""
        /\ aud.built
        /\ aud.report.sections[1].missing_values.pct_total = RInt(0)
        /\ aud.report.sections[1].duplicates.pct = RInt(0)
        /\ aud.report.sections[1].high_cardinality = <<>>

\* C7: a DataCleaner works on its own copy.  No step changes the caller's
\* DataFrame; a call on one DataCleaner leaves the other's DataFrame and log
\* as they were; no DataCleaner ever holds the caller's object or the
\* other's; a new DataCleaner starts from the caller's values with an empty
\* log.
C7_OwnCopy ==
    [][/\ store'["caller"] = store["caller"]
       /\ \A c \in Cleaners :
             /\ (cl[c].built /\ last'.who # c) =>
                   (cl[c]' = cl[c] /\ store'[cl[c].df] = store[cl[c].df])
             /\ cl[c].built' => cl[c].df' = c
             /\ (~cl[c].built /\ cl[c].built') =>
                   (cl[c].log' = <<>> /\ store'[cl[c].df'] = store["caller"])]_vars

\* both DataCleaners were built from the same DataFrame, one has changed its
\* data and its log, the other and the caller have not
C7_Witness ==
    /\ cl["c1"].built /\ cl["c2"].built
    /\ cl["c1"].calls > 0
    /\ cl["c2"].calls = 0
    /\ cl["c1"].log # <<>>
    /\ store["c1"] # store["caller"]
    /\ store["c2"] = store["caller"]

\* C8: once the Auditor is built, reading its report or printing it changes
\* neither the report, nor the Auditor's DataFrame, nor the caller's; every
\* read gives the report made at construction, and the checks have run once.
C8_ReadsChangeNothing ==
    [][/\ aud.built =>
             /\ aud' = aud
             /\ store' = store
             /\ last'.op \in {"report", "print_report"}
             /\ last'.ret.items = aud.report.sections
       /\ aud.built' =>
             /\ aud.runs' = 1
             /\ store'["aud"] = store'["caller"]
             /\ aud.report' = run_audit(store'["caller"]).report]_vars

\* the report was printed and read after that
C8_Witness ==
    /\ aud.built
    /\ aud.runs = 1
    /\ last.op = "report"
    /\ last.ret.items = aud.report.sections
    /\ NRows(store["aud"]) > 0

\* C11: in the report of every Auditor that was built, duplicates.count is the
\* number of rows that hold the same values as some earlier row, and
\* duplicates.pct is count / row_count * 100 when there are rows and 0 when
\* there are none, so it lies in [0, 100].
C11_DuplicatesCount ==
    aud.built =>
        LET df == store["aud"]
            n == NRows(df)
            d == aud.report.sections[1].duplicates
            repeats == {i \in 1..n : \E j \in 1..(i - 1) :
                            \A c \in ColNames(df) : df.rows[j][c] = df.rows[i][c]}
            count == Cardinality(repeats)
        IN  /\ d.count = count
            /\ d.pct = IF n > 0 THEN Rat(100 * count, n) ELSE RInt(0)
            /\ RLe(RInt(0), d.pct)
            /\ RLe(d.pct, RInt(100))

\* an Auditor was built on a DataFrame whose second row repeats the first
C11_Witness ==
    /\ aud.built
    /\ NRows(store["aud"]) >= 2
    /\ store["aud"].rows[1] = store["aud"].rows[2]
    /\ aud.report.sections[1].duplicates.count >= 1
    /\ aud.report.sections[1].duplicates.pct # RInt(0)

\* C12: drop_duplicates is idempotent.  A call of drop_duplicates that follows
\* a call of drop_duplicates on the same DataCleaner, with either keep on
\* either call, leaves the DataFrame as the first call left it, and its entry
\* reports 0 rows removed.
C12_DropDuplicatesIdempotent ==
    [][\A c \in Cleaners :
          (/\ Called(c)
           /\ last.op = "drop_duplicates" /\ last.who = c
           /\ last'.op = "drop_duplicates") =>
          /\ last'.fault = ""
          /\ store'[cl[c].df'] = ViewOf(c)
          /\ Len(NewEntries(c)) = 1
          /\ NewEntries(c)[1].msg.text = "Suppression doublons"
          /\ NewEntries(c)[1].msg.num = 0]_vars

\* drop_duplicates has run twice in a row: the first call removed a row, the
\* second none
C12_Witness ==
    LET log == cl["c1"].log
    IN  /\ cl["c1"].calls = 2
        /\ last.op = "drop_duplicates"
        /\ Len(log) = 2
        /\ log[1].msg.text = "Suppression doublons" /\ log[1].msg.num = 1
        /\ log[2].msg.text = "Suppression doublons" /\ log[2].msg.num = 0
        /\ NRows(ViewOf("c1")) = 1

\* C13: in the report a column is in constants exactly when it holds at most
\* 1 distinct non-missing value, and in low_variance (with its count) exactly
\* when it holds 2 to 5 distinct non-missing values and the DataFrame has more
\* than 20 rows; no column is in both, and low_variance is empty when there
\* are 20 rows or fewer.
C13_ConstantsAndLowVariance ==
    aud.built =>
        LET df == store["aud"]
            n == NRows(df)
            v == aud.report.sections[1].variance
            const == Range(v.constants)
            low == {v.low_variance[i][1] : i \in DOMAIN v.low_variance}
            distinct(c) ==
                Cardinality({df.rows[i][c] : i \in {j \in 1..n : ~IsNa(df.rows[j][c])}})
        IN  /\ \A c \in ColNames(df) :
                  /\ c \in const <=> distinct(c) <= 1
                  /\ c \in low <=> (2 <= distinct(c) /\ distinct(c) <= 5 /\ n > 20)
                  /\ ~(c \in const /\ c \in low)
            /\ \A i \in DOMAIN v.low_variance :
                  v.low_variance[i][2] = distinct(v.low_variance[i][1])
            /\ n <= 20 => v.low_variance = <<>>

\* an Auditor on 21 rows: Age, with a missing value and 2 distinct ones, is of
\* low variance, and Nom is constant
C13_Witness ==
    /\ aud.built
    /\ NRows(store["aud"]) = 21
    /\ IsNa(store["aud"].rows[1].Age)
    /\ aud.report.sections[1].variance.low_variance = << <<"Age", 2>> >>
    /\ aud.report.sections[1].variance.constants = <<"Nom">>

\* the positions of the values that are not strictly outside
\* [Q1 - k * IQR, Q3 + k * IQR], Q1 and Q3 being the quartiles of the values
Inside(values, k) ==
    LET q1 == RatOf(quantile(values, 1, 4))
        q3 == RatOf(quantile(values, 3, 4))
        iqr == RSub(q3, q1)
        lo == RSub(q1, RMul(k, iqr))
        hi == RAdd(q3, RMul(k, iqr))
    IN  {i \in DOMAIN values :
            IsNum(values[i]) /\ ~RLt(RatOf(values[i]), lo) /\ ~RLt(hi, RatOf(values[i]))}

\* the rows a filter on col keeps, in their order
Keep(rows, col, k) ==
    LET in == Inside([i \in 1..Len(rows) |-> rows[i][col]], k)
    IN  Filter(rows, [i \in 1..Len(rows) |-> i \in in])

\* the step is a call of remove_outliers_iqr on c that names n columns, all of
\* them numeric columns of the DataFrame
FiltersOutliers(c, n) ==
    /\ Called(c)
    /\ last'.op = "remove_outliers_iqr"
    /\ Len(last'.args.columns) = n
    /\ \A j \in 1..n :
          /\ HasCol(ViewOf(c), last'.args.columns[j])
          /\ is_numeric_dtype(ViewOf(c).dtype[last'.args.columns[j]])

OneToFive == [i \in 1..5 |-> IntCell(i)]

\* C14: remove_outliers_iqr on one numeric column without missing values
\* removes exactly the rows whose value lies strictly outside
\* [Q1 - k * IQR, Q3 + k * IQR], the quartiles taken before the removal, and
\* keeps the other rows in their order; on 1, 2, 3, 4, 5, 1000 with k = 1.5
\* only the row of 1000 goes.
C14_RemovesExactlyOutside ==
    [][\A c \in Cleaners : FiltersOutliers(c, 1) =>
          LET df == ViewOf(c)
              after == store'[cl[c].df']
              col == last'.args.columns[1]
              k == last'.args.multiplier
          IN  (\A i \in 1..NRows(df) : ~IsNa(df.rows[i][col])) =>
                /\ last'.fault = ""
                /\ after.rows = Keep(df.rows, col, k)
                /\ after.cols = df.cols
                /\ (Column(df, col) = OneToFive \o <<IntCell(1000)>> /\ k = Rat(3, 2)) =>
                      Column(after, col) = OneToFive]_vars

\* remove_outliers_iqr(['Age'], 1.5) has run on Age = 1, 2, 3, 4, 5, 1000
C14_Witness ==
    /\ last.op = "remove_outliers_iqr"
    /\ last.args.columns = <<"Age">>
    /\ last.args.multiplier = Rat(3, 2)
    /\ cl[last.who].calls = 1
    /\ Column(store["caller"], "Age") = OneToFive \o <<IntCell(1000)>>
    /\ Column(ViewOf(last.who), "Age") = OneToFive
    /\ cl[last.who].log[1].msg.num = 1

\* the rows remove_outliers_iqr([col], k) takes from df
RemovedBy(df, col, k) ==
    NRows(df) - NRows(remove_outliers_iqr(Work(df, <<>>), <<col>>, k).df)

\* C15: on a numeric column of at least 5 distinct values the number of
\* values outside the bounds, and with it the number of rows
\* remove_outliers_iqr removes, does not grow with the multiplier: a call with
\* k removes at least as many rows as a call with any k2 >= k on the same
\* DataFrame, and at most as many as one with any k2 <= k.
C15_FewerOutliersWithLargerK ==
    [][\A c \in Cleaners : FiltersOutliers(c, 1) =>
          LET df == ViewOf(c)
              after == store'[cl[c].df']
              col == last'.args.columns[1]
              values == Column(df, col)
              k == last'.args.multiplier
              removed == NRows(df) - NRows(after)
              outside(m) == NRows(df) - Cardinality(Inside(values, m))
          IN  nunique(values) >= 5 =>
                \A k2 \in IqrMultipliers :
                    /\ RLe(k, k2) => /\ removed >= RemovedBy(df, col, k2)
                                     /\ outside(k) >= outside(k2)
                    /\ RLe(k2, k) => /\ removed <= RemovedBy(df, col, k2)
                                     /\ outside(k) <= outside(k2)]_vars

\* a call with k = 0 has removed rows of a column of which k = 3 removes none
C15_Witness ==
    /\ last.op = "remove_outliers_iqr"
    /\ last.args.columns = <<"Salaire">>
    /\ last.args.multiplier = RInt(0)
    /\ cl[last.who].calls = 1
    /\ nunique(Column(store["caller"], "Salaire")) >= 5
    /\ NRows(ViewOf(last.who)) < NRows(store["caller"])
    /\ RemovedBy(store["caller"], "Salaire", RInt(3)) = 0

\* C20: remove_outliers_iqr on two columns filters one after the other: the
\* bounds of the second column are taken on the rows the filter of the first
\* left, not on the rows the call started from.
C20_FiltersSequentially ==
    [][\A c \in Cleaners : FiltersOutliers(c, 2) =>
          LET df == ViewOf(c)
              after == store'[cl[c].df']
              cols == last'.args.columns
              k == last'.args.multiplier
          IN  /\ last'.fault = ""
              /\ after.rows = Keep(Keep(df.rows, cols[1], k), cols[2], k)]_vars

\* Two DataCleaners on the same DataFrame: c1 filtered Age then Salaire and
\* is left with 4 rows, c2 filtered Salaire then Age with the same multiplier
\* and is left with 5; the masks of the two columns taken on the DataFrame
\* they started from keep 5 rows.
C20_Witness ==
    LET df == store["caller"]
        both == Inside(Column(df, "Age"), Rat(3, 2))
                    \cap Inside(Column(df, "Salaire"), Rat(3, 2))
    IN  /\ cl["c1"].calls = 1 /\ cl["c2"].calls = 1
        /\ Len(cl["c1"].log) = 2
        /\ cl["c1"].log[1].msg.col = "Age" /\ cl["c1"].log[2].msg.col = "Salaire"
        /\ cl["c1"].log[1].msg.val = FloatCell(Rat(3, 2))
        /\ last.who = "c2"
        /\ last.args.columns = <<"Salaire", "Age">>
        /\ last.args.multiplier = Rat(3, 2)
        /\ NRows(store["c1"]) = 4
        /\ NRows(store["c2"]) = 5
        /\ Cardinality(both) = 5

\* the statistic of the non-missing numbers of a column: their sum over their
\* count, the middle of their ranking (the mean of the two middle ones when
\* the count is even), or the smallest of the values met most often
Statistic(strategy, values) ==
    LET known == {i \in DOMAIN values : ~IsNa(values[i])}
        n == Cardinality(known)
        x(i) == RatOf(values[i])
        below(v) == Cardinality({i \in known : RLt(x(i), v)})
        upto(v) == Cardinality({i \in known : RLe(x(i), v)})
        ranked(r) == x(CHOOSE i \in known : below(x(i)) < r /\ r <= upto(x(i)))
        count(v) == Cardinality({i \in known : x(i) = v})
        most == {i \in known : \A j \in known : count(x(j)) <= count(x(i))}
    IN  CASE strategy = "mean" ->
               RDiv(SumSeq([i \in 1..Len(values) |->
                               IF i \in known THEN x(i) ELSE RInt(0)]), RInt(n))
          [] strategy = "median" ->
               RDiv(RAdd(ranked((n + 1) \div 2), ranked(n \div 2 + 1)), RInt(2))
          [] OTHER -> x(CHOOSE i \in most : \A j \in most : RLe(x(i), x(j)))

\* values with every missing entry replaced by the statistic of the others,
\* and left as they are when there are no others
Imputed(strategy, values, new) ==
    /\ Len(new) = Len(values)
    /\ \A i \in DOMAIN values :
          IF ~IsNa(values[i]) THEN new[i] = values[i]
          ELSE IF \A j \in DOMAIN values : IsNa(values[j]) THEN IsNa(new[i])
          ELSE IsNum(new[i]) /\ RatOf(new[i]) = Statistic(strategy, values)

TenTwenty == <<FloatCell(RInt(10)), FloatCell(RInt(20)), NaN>>

\* C16: handle_missing with strategy mean, median or mode replaces, in each
\* numeric target column, every missing entry by the statistic of the
\* non-missing entries of that column (15 for the mean of 10, 20, missing; the
\* smallest value for the mode on a tie), leaves the non-missing entries, the
\* non-numeric columns and the columns that are no target as they are, and
\* keeps the row count.
C16_ImputesStatistic ==
    [][\A c \in Cleaners :
          (/\ Called(c)
           /\ last'.op = "handle_missing"
           /\ last'.args.strategy \in {"mean", "median", "mode"}
           /\ \A j \in DOMAIN last'.args.columns : HasCol(ViewOf(c), last'.args.columns[j]))
          => LET df == ViewOf(c)
                 after == store'[cl[c].df']
                 strategy == last'.args.strategy
                 targets == Targets(df, last'.args.columns, AllDtypes)
             IN  /\ last'.fault = ""
                 /\ NRows(after) = NRows(df)
                 /\ after.cols = df.cols
                 /\ \A j \in DOMAIN df.cols :
                       LET col == df.cols[j] IN
                       IF col \in Range(targets) /\ is_numeric_dtype(df.dtype[col])
                       THEN /\ Imputed(strategy, Column(df, col), Column(after, col))
                            /\ Column(df, col) = TenTwenty =>
                                  Column(after, col)[3] =
                                      FloatCell(RInt(IF strategy = "mode" THEN 10 ELSE 15))
                       ELSE Column(after, col) = Column(df, col)]_vars

\* handle_missing('mode') has run on Age = 20, 10, missing, the values 10 and 20
\* tied, and has put 10 where Age was missing and nothing where Nom is missing
C16_Witness ==
    /\ last.op = "handle_missing"
    /\ last.args.strategy = "mode"
    /\ last.fault = ""
    /\ cl["c1"].calls = 1
    /\ Column(store["caller"], "Age") = <<FloatCell(RInt(20)), FloatCell(RInt(10)), NaN>>
    /\ Column(ViewOf("c1"), "Age") =
          <<FloatCell(RInt(20)), FloatCell(RInt(10)), FloatCell(RInt(10))>>
    /\ IsNa(store["caller"].rows[1].Nom)
    /\ Column(ViewOf("c1"), "Nom") = Column(store["caller"], "Nom")

\* C17 as stated: the percentage of missing values in the report is
\* 100 * (missing cells) / (rows * columns) whenever the DataFrame has cells,
\* and never exceeds 100.
C17_MissingPercentage ==
    (aud.built /\ aud.report.sections # <<>>) =>
        LET df == store["aud"]
            mv == aud.report.sections[1].missing_values
            cells == NRows(df) * Len(df.cols)
        IN  /\ cells > 0 => mv.pct_total = Pct(mv.total, cells)
            /\ RLe(mv.pct_total, RInt(100))

\* the column names a call was given
NamedColumns(op, args) ==
    IF op = "convert_types"
    THEN [i \in 1..Len(args.type_dict) |-> args.type_dict[i][1]]
    ELSE args.columns

\* the step is a call on c that names a column the DataFrame does not have
NamesAbsentColumn(c) ==
    /\ Called(c)
    /\ \E j \in DOMAIN NamedColumns(last'.op, last'.args) :
          ~HasCol(ViewOf(c), NamedColumns(last'.op, last'.args)[j])

\* C18 as stated: a call of any method that is given the name of a column the
\* DataFrame does not have raises to the caller, convert_types included.
C18_AbsentColumnFaults ==
    [][\A c \in Cleaners : NamesAbsentColumn(c) => last'.fault # ""]_vars

\* a text that is not the text of a number
NotANumber(c) == IsStr(c) /\ IsNa(to_numeric(c))

\* C19 as stated: convert_types with a numeric target type, integer or
\* floating, on a column that holds values that cannot be converted raises
\* nothing, makes each such value missing, converts the other values to the
\* target type and logs the conversion as done.
C19_NumericTargetCoerces ==
    [][\A c \in Cleaners : (Called(c) /\ last'.op = "convert_types") =>
          LET td == last'.args.type_dict
              df == ViewOf(c)
              after == store'[cl[c].df']
              pairs == Filter(td, [i \in 1..Len(td) |-> HasCol(df, td[i][1])])
              new == NewEntries(c)
          IN  \A p \in DOMAIN pairs :
                 LET col == pairs[p][1]
                     dtype == pairs[p][2]
                     old == Column(df, col)
                 IN  (/\ dtype \in {"int", "float"}
                      /\ \E i \in DOMAIN old : NotANumber(old[i])) =>
                       /\ last'.fault = ""
                       /\ Len(new) >= p
                       /\ new[p].msg.text = "type converti"
                       /\ new[p].msg.col = col
                       /\ \A i \in DOMAIN old :
                             LET x == to_numeric(old[i])
                                 y == after.rows[i][col]
                             IN  IF IsNa(x) THEN IsNa(y)
                                 ELSE /\ y.k = dtype
                                      /\ RatOf(y) = RatOf(IF dtype = "int" THEN Trunc(x)
                                                          ELSE x)]_vars

\* two rows hold the same values, column by column
SameRow(cols, r1, r2) == \A j \in DOMAIN cols : CellEq(r1[cols[j]], r2[cols[j]])

\* C21: after drop_duplicates(keep) no two rows of the DataFrame hold the same
\* values; every distinct row of the DataFrame before is there exactly once,
\* at the place of its first (keep='first') or last (keep='last') occurrence,
\* the rows in their order; the entry appended reports rows before minus rows
\* after.
C21_DropDuplicatesKeeps ==
    [][\A c \in Cleaners : (Called(c) /\ last'.op = "drop_duplicates") =>
          LET df == ViewOf(c)
              after == store'[cl[c].df']
              keep == last'.args.keep
              n == NRows(df)
              same(i, j) == SameRow(df.cols, df.rows[i], df.rows[j])
              kept == {i \in 1..n :
                          IF keep = "first" THEN \A j \in 1..(i - 1) : ~same(j, i)
                          ELSE \A j \in (i + 1)..n : ~same(i, j)}
              new == NewEntries(c)
          IN  /\ last'.fault = ""
              /\ after.cols = df.cols
              /\ \A i, j \in 1..NRows(after) :
                    i # j => ~SameRow(df.cols, after.rows[i], after.rows[j])
              /\ \A i \in 1..n :
                    Cardinality({k \in 1..NRows(after) :
                                    SameRow(df.cols, after.rows[k], df.rows[i])}) = 1
              /\ after.rows = Filter(df.rows, [i \in 1..n |-> i \in kept])
              /\ Len(new) = 1
              /\ new[1].msg.text = "Suppression doublons"
              /\ new[1].msg.num = n - NRows(after)]_vars

\* drop_duplicates(keep='last') has run on three rows, the third repeating the
\* first, and has left the second and the third
C21_Witness ==
    LET df == store["caller"]
    IN  /\ last.op = "drop_duplicates"
        /\ last.args.keep = "last"
        /\ cl["c1"].calls = 1
        /\ NRows(df) = 3
        /\ df.rows[1] = df.rows[3]
        /\ df.rows[1] # df.rows[2]
        /\ ViewOf("c1").rows = <<df.rows[2], df.rows[3]>>
        /\ cl["c1"].log[1].msg.num = 1

\* the distinct non-missing values of a column
Distinct(df, col) == {df.rows[i][col] : i \in {k \in 1..NRows(df) : ~IsNa(df.rows[k][col])}}

\* C22: the outliers section of the report has an entry for a column exactly
\* when the column is numeric and holds at least 5 distinct non-missing
\* values, and one entry only; a numeric column of fewer values is not in the
\* section.  Every entry carries the two counts and the least and the
\* greatest value of the column, also when both counts are 0.
C22_OutliersSection ==
    aud.built =>
        LET df == store["aud"]
            o == aud.report.sections[1].outliers
            due == {col \in ColNames(df) :
                       is_numeric_dtype(df.dtype[col]) /\ Cardinality(Distinct(df, col)) >= 5}
        IN  /\ {o[i].col : i \in DOMAIN o} = due
            /\ Len(o) = Cardinality(due)
            /\ \A i \in DOMAIN o :
                  LET values == {RatOf(x) : x \in Distinct(df, o[i].col)}
                  IN  /\ o[i].iqr_count \in 0..NRows(df)
                      /\ o[i].z3_count \in 0..NRows(df)
                      /\ o[i].min_val \in values
                      /\ o[i].max_val \in values
                      /\ \A v \in values : RLe(o[i].min_val, v) /\ RLe(v, o[i].max_val)

\* an Auditor was built on a DataFrame whose Age holds the 5 values 0 to 4 and
\* a missing one, and whose Nom holds 6 texts: Age alone is in the section,
\* with both counts 0
C22_Witness ==
    /\ aud.built
    /\ IsNa(store["aud"].rows[1].Age)
    /\ Cardinality(Distinct(store["aud"], "Age")) = 5
    /\ Cardinality(Distinct(store["aud"], "Nom")) = 6
    /\ aud.report.sections[1].outliers =
          <<[col |-> "Age", iqr_count |-> 0, z3_count |-> 0,
             min_val |-> RInt(0), max_val |-> RInt(4)]>>

RECURSIVE Rewritten(_, _)
\* what the rules, each of one character for one character, make of a
\* character when they are applied one after the other
Rewritten(ch, rules) ==
    IF rules = <<>> THEN ch
    ELSE Rewritten(IF <<ch>> = rules[1][1] THEN rules[1][2][1] ELSE ch, Tail(rules))

\* C23: replace_in_strings applies its rules to every target text column in
\* the order given, each rule on what the rules before it have left: a
\* character of the value ends as the chain of the rules makes it, so with
\* (a -> b, b -> c) every a and every b ends as c.  old is matched as it is
\* written: "." stands for the full stop only.
C23_RulesInOrder ==
    [][\A c \in Cleaners :
          (/\ Called(c)
           /\ last'.op = "replace_in_strings"
           /\ last'.args.to_replace # <<>>
           /\ \A k \in DOMAIN last'.args.to_replace :
                 Len(last'.args.to_replace[k][1]) = 1 /\ Len(last'.args.to_replace[k][2]) = 1)
          => LET df == ViewOf(c)
                 after == store'[cl[c].df']
                 rules == last'.args.to_replace
                 cols == Targets(df, last'.args.columns, TextKinds)
                 ab == << <<(<<"a">>), (<<"b">>)>>, <<(<<"b">>), (<<"c">>)>> >>
             IN  (/\ \A j \in DOMAIN cols : HasCol(df, cols[j])
                  /\ last'.fault = "") =>
                   \A j \in DOMAIN cols : \A i \in 1..NRows(df) :
                      LET x == df.rows[i][cols[j]]
                          y == after.rows[i][cols[j]]
                      IN  IsStr(x) =>
                            /\ IsStr(y)
                            /\ y.s = [k \in 1..Len(x.s) |-> Rewritten(x.s[k], rules)]
                            /\ rules = ab =>
                                  \A k \in 1..Len(x.s) :
                                     /\ x.s[k] \in {"a", "b"} => y.s[k] = "c"
                                     /\ y.s[k] \notin {"a", "b"}]_vars

\* replace_in_strings({'.': 'a', 'a': 'b'}) has run on the text a.b and has
\* left bbb
C23_Witness ==
    /\ last.op = "replace_in_strings"
    /\ last.fault = ""
    /\ cl["c1"].calls = 1
    /\ last.args.to_replace = << <<(<<".">>), (<<"a">>)>>, <<(<<"a">>), (<<"b">>)>> >>
    /\ store["caller"].rows[1].Nom = StrCell(<<"a", ".", "b">>)
    /\ ViewOf("c1").rows[1].Nom = StrCell(<<"b", "b", "b">>)

\* C24: a call of remove_outliers_iqr that runs through also removes every row
\* whose value in a target column is missing: afterwards no target column
\* holds a missing value, and no row that had one is left.
C24_RemovesMissing ==
    [][\A c \in Cleaners :
          (Called(c) /\ last'.op = "remove_outliers_iqr" /\ last'.fault = "") =>
          LET df == ViewOf(c)
              after == store'[cl[c].df']
              cols == Targets(df, last'.args.columns, NumberKinds)
              whole == {i \in 1..NRows(df) :
                           \A j \in DOMAIN cols : ~IsNa(df.rows[i][cols[j]])}
          IN  /\ \A j \in DOMAIN cols : \A i \in 1..NRows(after) :
                    ~IsNa(after.rows[i][cols[j]])
              /\ \A i \in 1..NRows(after) : \E k \in whole : after.rows[i] = df.rows[k]
              /\ NRows(after) <= Cardinality(whole)]_vars

\* remove_outliers_iqr(['Age'], 3) has run on Age = missing, 2, 3, 4, 5, where
\* no value is outside the bounds, and has removed the first row
C24_Witness ==
    LET df == store["caller"]
    IN  /\ last.op = "remove_outliers_iqr"
        /\ last.fault = ""
        /\ last.args.columns = <<"Age">>
        /\ last.args.multiplier = RInt(3)
        /\ cl[last.who].calls = 1
        /\ NRows(df) = 5
        /\ IsNa(df.rows[1].Age)
        /\ ViewOf(last.who).rows = Tail(df.rows)
        /\ cl[last.who].log[1].msg.num = 1

RECURSIVE IsSubSeq(_, _)
\* s is t with some of its elements left out
IsSubSeq(s, t) ==
    IF s = <<>> THEN TRUE
    ELSE IF t = <<>> THEN FALSE
    ELSE IF Head(s) = Head(t) THEN IsSubSeq(Tail(s), Tail(t))
    ELSE IsSubSeq(s, Tail(t))

\* the methods that select rows
RowDroppers == {"drop_duplicates", "remove_outliers_iqr"}

\* C25: over every step the DataFrame of a DataCleaner never gains a row and
\* keeps its column names in their order.  Only drop_duplicates,
\* handle_missing('drop') and remove_outliers_iqr lower the row count, and the
\* rows they leave are rows of the DataFrame before, in the same order.
C25_RowsOnlyShrink ==
    [][\A c \in Cleaners : cl[c].built =>
          LET df == ViewOf(c)
              after == store'[cl[c].df']
              drops == /\ Called(c)
                       /\ \/ last'.op \in RowDroppers
                          \/ last'.op = "handle_missing" /\ last'.args.strategy = "drop"
          IN  /\ NRows(after) <= NRows(df)
              /\ after.cols = df.cols
              /\ NRows(after) < NRows(df) => drops
              /\ drops => IsSubSeq(after.rows, df.rows)]_vars

\* a DataCleaner on two rows has lost the first, where Age was missing, to
\* handle_missing('drop'), and then nothing to drop_duplicates
C25_Witness ==
    /\ cl["c1"].calls = 2
    /\ last.op = "drop_duplicates"
    /\ Len(cl["c1"].log) = 2
    /\ cl["c1"].log[1].msg.text = "Drop NaN"
    /\ cl["c1"].log[2].msg.num = 0
    /\ NRows(store["caller"]) = 2
    /\ IsNa(store["caller"].rows[1].Age)
    /\ ViewOf("c1").rows = <<store["caller"].rows[2]>>
    /\ ViewOf("c1").cols = <<"Age", "Nom">>

\* C26: the Auditor and the DataCleaner agree on duplicates.  When a new
\* DataCleaner has run drop_duplicates(keep='first'), an Auditor built on the
\* DataFrame the DataCleaner was built from reports as duplicates.count the
\* number of rows that call removed, and an Auditor built on the DataFrame the
\* call left reports 0.
C26_AuditorAgreesWithCleaner ==
    \A c \in Cleaners :
        (/\ aud.built
         /\ cl[c].calls = 1
         /\ Len(cl[c].log) = 1
         /\ cl[c].log[1].msg.text = "Suppression doublons"
         /\ cl[c].log[1].msg.word = "first") =>
           LET count == aud.report.sections[1].duplicates.count
               removed == NRows(store["caller"]) - NRows(ViewOf(c))
           IN  /\ cl[c].log[1].msg.num = removed
               /\ store["aud"] = store["caller"] => count = removed
               /\ store["aud"] = ViewOf(c) => count = 0

\* drop_duplicates(keep='first') has removed the third row of a, b, a, and an
\* Auditor was then built on the two rows left: it reports no duplicate
C26_Witness ==
    LET df == store["caller"]
    IN  /\ last.op = "DataAuditor"
        /\ aud.built
        /\ cl["c1"].calls = 1
        /\ cl["c1"].log[1].msg.word = "first"
        /\ cl["c1"].log[1].msg.num = 1
        /\ NRows(df) = 3
        /\ df.rows[1] = df.rows[3]
        /\ store["aud"] = ViewOf("c1")
        /\ store["aud"].rows = <<df.rows[1], df.rows[2]>>
        /\ aud.report.sections[1].duplicates.count = 0

====
